---- MODULE Spec2Model ----
(***************************************************************************)
(* Permission checking and audit logging of nihilok/app-template.          *)
(*                                                                         *)
(*   PermissionRepository.getUserPermissions  (Permission Store access)    *)
(*   CheckPermissionUseCase                   (Permission Resolver)        *)
(*   PermissionChecker                        (Permission Guard)           *)
(*   AuditLogRepository                       (Audit Store)                *)
(*   AuditLogger                              (Audit Recorder)             *)
(*   UserRepository, the user use cases and   (callers of the Guard and    *)
(*   UserController                            of the Audit Recorder)      *)
(*                                                                         *)
(* Strings that the code concatenates or compares (resource, action, the   *)
(* "resource:action" keys, error messages) are sequences of tokens, so     *)
(* that `${resource}:${action}` is a real concatenation.                   *)
(***************************************************************************)
EXTENDS Integers, Sequences, FiniteSets, TLC

VARIABLES userRoles, rolePermissions, rolesDeletedAt, permissionsDeletedAt,
          users, auditLogs, nextId,
          call, ret, trace,
          find, userData, threads

\* userData: the columns of the rows of users; threads: the calls of the
\* AuditLogger and of the UserController that are in progress, each at its next
\* await; find: what the list query of the Audit Store in progress answered
app == <<userData, threads>>
store == <<userRoles, rolePermissions, rolesDeletedAt, permissionsDeletedAt,
           users, auditLogs, nextId, app>>
vars == <<userRoles, rolePermissions, rolesDeletedAt, permissionsDeletedAt,
          users, auditLogs, nextId, app, call, ret, trace, find>>

----------------------------------------------------------------------------
(* Bounds *)

\* rows of the user_roles table
MaxUserRoleRows == 2
\* rows of the role_permissions table
MaxRolePermissionRows == 2
\* length of a checks array passed to a batch operation
MaxChecks == 2
\* rows ever inserted into the audit_logs table
MaxAuditLogs == 2
\* rows ever inserted into the users table by the program
MaxNewUsers == 2

----------------------------------------------------------------------------
(* The data the tables hold *)

\* user ids a caller may pass; "ghost" has no row in the users table
Users == {"alice", "ghost"}
ExistingUsers == {"alice"}
\* the ids the database gives to the rows inserted into users, in this order
NewUserId(i) == "u" \o ToString(i)
NewUserIds == { NewUserId(i) : i \in 1..MaxNewUsers }
UserIds == Users \cup NewUserIds
Roles == {"r1", "r2"}
PermIds == {"p1", "p2", "p3"}

\* rows of the permissions table: p1 and p2 carry the same (resource, action)
\* under two names, p3 has an action that contains ':'
permissions ==
  [p \in PermIds |->
     CASE p = "p1" -> [id |-> "p1", resource |-> <<"users">>, action |-> <<"read">>]
       [] p = "p2" -> [id |-> "p2", resource |-> <<"users">>, action |-> <<"read">>]
       [] p = "p3" -> [id |-> "p3", resource |-> <<"users">>,
                       action |-> <<"read", ":", "all">>]]

\* the { resource, action } pairs a caller asks about: one that p1 and p2 carry,
\* one that p3 carries, and one that no row carries and whose key is p3's key
CheckPairs ==
  { [resource |-> <<"users">>, action |-> <<"read">>],
    [resource |-> <<"users">>, action |-> <<"read", ":", "all">>],
    [resource |-> <<"users", ":", "read">>, action |-> <<"all">>] }

CheckLists == UNION { [1..n -> CheckPairs] : n \in 0..MaxChecks }

\* the orders in which the join may deliver the permissions (no ORDER BY)
PermOrders == { o \in [1..Cardinality(PermIds) -> PermIds] :
                  \A i, j \in DOMAIN o : i # j => o[i] # o[j] }

\* the sum of f over S
RECURSIVE SumOver(_, _)
SumOver(S, f) ==
  IF S = {} THEN 0
  ELSE LET x == CHOOSE y \in S : TRUE IN f[x] + SumOver(S \ {x}, f)

UserRoleRows == SumOver(DOMAIN userRoles, userRoles)
RolePermissionRows == SumOver(DOMAIN rolePermissions, rolePermissions)

----------------------------------------------------------------------------
(* Errors *)

NoError == [message |-> <<>>]
DatabaseError == [message |-> <<"Database error">>]
Forbidden == [message |-> <<"Forbidden">>]

----------------------------------------------------------------------------
(* PermissionRepository.getUserPermissions *)

RECURSIVE Repeat(_, _)
Repeat(x, n) == IF n = 0 THEN <<>> ELSE <<x>> \o Repeat(x, n - 1)

\* variant: the WHERE clause lacks isNull(roles.deletedAt)
JoinCount_noRoleFilter(userId, p) ==
  IF permissionsDeletedAt[p] THEN 0
  ELSE SumOver(Roles,
         [r \in Roles |-> userRoles[<<userId, r>>] * rolePermissions[<<r, p>>]])

\* variant: the WHERE clause lacks isNull(permissions.deletedAt)
JoinCount_noPermissionFilter(userId, p) ==
  SumOver(Roles,
    [r \in Roles |->
       IF rolesDeletedAt[r] THEN 0
       ELSE userRoles[<<userId, r>>] * rolePermissions[<<r, p>>]])

\* number of rows the three inner joins and the WHERE clause yield for (userId, p)
JoinCount(userId, p) ==
  IF permissionsDeletedAt[p] THEN 0
  ELSE SumOver(Roles,
         [r \in Roles |->
            IF rolesDeletedAt[r] THEN 0
            ELSE userRoles[<<userId, r>>] * rolePermissions[<<r, p>>]])

\* the rows of the query, delivered in the order ord of the permissions
RECURSIVE JoinRows(_, _, _)
JoinRows(userId, ord, i) ==
  IF i > Len(ord) THEN <<>>
  ELSE Repeat(permissions[ord[i]], JoinCount(userId, ord[i]))
         \o JoinRows(userId, ord, i + 1)

\* variant: every row is kept, no Map
MapSet_append(m, row) == Append(m, row)

\* uniquePermissions.set(result.id, result): a Map keeps the position of the
\* first insertion of a key and the value of the last one
MapSet(m, row) ==
  IF \E i \in DOMAIN m : m[i].id = row.id
  THEN [i \in DOMAIN m |-> IF m[i].id = row.id THEN row ELSE m[i]]
  ELSE Append(m, row)

RECURSIVE UniquePermissions(_, _, _)
UniquePermissions(results, i, m) ==
  IF i > Len(results) THEN m
  ELSE UniquePermissions(results, i + 1, MapSet(m, results[i]))

PermissionRepository_getUserPermissions(userId, ord, dbUp) ==
  IF ~dbUp
  THEN [threw |-> TRUE, error |-> DatabaseError, value |-> <<>>]
  ELSE [threw |-> FALSE, error |-> NoError,
        value |-> UniquePermissions(JoinRows(userId, ord, 1), 1, <<>>)]

----------------------------------------------------------------------------
(* CheckPermissionUseCase *)

\* results[key] = value on a plain object
ObjectSet(results, key, value) ==
  [k \in DOMAIN results \cup {key} |-> IF k = key THEN value ELSE results[k]]

\* const results: Record<string, boolean> = {}
EmptyObject == [k \in {} |-> FALSE]

\* `${check.resource}:${check.action}`
Key(check) == check.resource \o <<":">> \o check.action

Matches(permission, resource, action) ==
  permission.resource = resource /\ permission.action = action

\* variant: the loop breaks at the first match
RECURSIVE ExecuteLoop_break(_, _, _, _, _)
ExecuteLoop_break(userPermissions, i, resource, action, acc) ==
  IF i > Len(userPermissions) THEN acc
  ELSE IF Matches(userPermissions[i], resource, action)
       THEN [hasPermission |-> TRUE, compared |-> acc.compared + 1]
       ELSE ExecuteLoop_break(userPermissions, i + 1, resource, action,
              [hasPermission |-> acc.hasPermission,
               compared |-> acc.compared + 1])

\* the for loop of execute: no break, every element is compared
RECURSIVE ExecuteLoop(_, _, _, _, _)
ExecuteLoop(userPermissions, i, resource, action, acc) ==
  IF i > Len(userPermissions) THEN acc
  ELSE ExecuteLoop(userPermissions, i + 1, resource, action,
         [hasPermission |-> IF Matches(userPermissions[i], resource, action)
                            THEN TRUE ELSE acc.hasPermission,
          compared |-> acc.compared + 1])

CheckPermissionUseCase_execute(userId, resource, action, ord, dbUp) ==
  LET fetch == PermissionRepository_getUserPermissions(userId, ord, dbUp)
      loop == ExecuteLoop(fetch.value, 1, resource, action,
                          [hasPermission |-> FALSE, compared |-> 0])
  IN IF fetch.threw
     THEN [threw |-> TRUE, error |-> fetch.error, value |-> FALSE,
           results |-> EmptyObject, list |-> <<>>,
           fetches |-> <<userId>>, setSize |-> 0, compared |-> <<>>]
     ELSE [threw |-> FALSE, error |-> NoError, value |-> loop.hasPermission,
           results |-> EmptyObject, list |-> <<>>,
           fetches |-> <<userId>>, setSize |-> Len(fetch.value),
           compared |-> <<loop.compared>>]

CheckPermissionUseCase_getUserPermissions(userId, ord, dbUp) ==
  LET fetch == PermissionRepository_getUserPermissions(userId, ord, dbUp)
  IN [threw |-> fetch.threw, error |-> fetch.error, value |-> FALSE,
      results |-> EmptyObject, list |-> fetch.value,
      fetches |-> <<userId>>, setSize |-> Len(fetch.value), compared |-> <<>>]

\* Array.prototype.some: stops at the first element that matches
RECURSIVE Some(_, _, _, _)
Some(userPermissions, i, check, n) ==
  IF i > Len(userPermissions) THEN [found |-> FALSE, compared |-> n]
  ELSE IF Matches(userPermissions[i], check.resource, check.action)
       THEN [found |-> TRUE, compared |-> n + 1]
       ELSE Some(userPermissions, i + 1, check, n + 1)

RECURSIVE CheckMultipleLoop(_, _, _, _)
CheckMultipleLoop(userPermissions, checks, i, acc) ==
  IF i > Len(checks) THEN acc
  ELSE LET s == Some(userPermissions, 1, checks[i], 0)
       IN CheckMultipleLoop(userPermissions, checks, i + 1,
            [results |-> ObjectSet(acc.results, Key(checks[i]), s.found),
             compared |-> Append(acc.compared, s.compared)])

\* variant: the permission set is fetched once per requested pair
CheckPermissionUseCase_checkMultiple_perCheck(userId, checks, ord, dbUp) ==
  LET fetch == PermissionRepository_getUserPermissions(userId, ord, dbUp)
      loop == CheckMultipleLoop(fetch.value, checks, 1,
                                [results |-> EmptyObject, compared |-> <<>>])
  IN IF fetch.threw /\ checks # <<>>
     THEN [threw |-> TRUE, error |-> fetch.error, value |-> FALSE,
           results |-> EmptyObject, list |-> <<>>,
           fetches |-> <<userId>>, setSize |-> 0, compared |-> <<>>]
     ELSE [threw |-> FALSE, error |-> NoError, value |-> FALSE,
           results |-> loop.results, list |-> <<>>,
           fetches |-> [i \in DOMAIN checks |-> userId],
           setSize |-> Len(fetch.value), compared |-> loop.compared]

CheckPermissionUseCase_checkMultiple(userId, checks, ord, dbUp) ==
  LET fetch == PermissionRepository_getUserPermissions(userId, ord, dbUp)
      loop == CheckMultipleLoop(fetch.value, checks, 1,
                                [results |-> EmptyObject, compared |-> <<>>])
  IN IF fetch.threw
     THEN [threw |-> TRUE, error |-> fetch.error, value |-> FALSE,
           results |-> EmptyObject, list |-> <<>>,
           fetches |-> <<userId>>, setSize |-> 0, compared |-> <<>>]
     ELSE [threw |-> FALSE, error |-> NoError, value |-> FALSE,
           results |-> loop.results, list |-> <<>>,
           fetches |-> <<userId>>, setSize |-> Len(fetch.value),
           compared |-> loop.compared]

----------------------------------------------------------------------------
(* PermissionChecker *)

\* variant: no try/catch around the Resolver
PermissionChecker_check_nocatch(userId, resource, action, ord, dbUp) ==
  LET r == CheckPermissionUseCase_execute(userId, resource, action, ord, dbUp)
  IN [threw |-> r.threw, error |-> r.error, value |-> r.value,
      results |-> EmptyObject, list |-> <<>>,
      fetches |-> r.fetches, resolverCalls |-> 1,
      resolver |-> IF r.threw THEN "threw"
                   ELSE IF r.value THEN "true" ELSE "false",
      logged |-> <<>>]

\* try { return await execute(...) } catch (error) { console.error; return false }
PermissionChecker_check(userId, resource, action, ord, dbUp) ==
  LET r == CheckPermissionUseCase_execute(userId, resource, action, ord, dbUp)
  IN IF r.threw
     THEN [threw |-> FALSE, error |-> NoError, value |-> FALSE,
           results |-> EmptyObject, list |-> <<>>,
           fetches |-> r.fetches, resolverCalls |-> 1, resolver |-> "threw",
           logged |-> <<r.error>>]
     ELSE [threw |-> FALSE, error |-> NoError, value |-> r.value,
           results |-> EmptyObject, list |-> <<>>,
           fetches |-> r.fetches, resolverCalls |-> 1,
           resolver |-> IF r.value THEN "true" ELSE "false",
           logged |-> <<>>]

\* variant: require asks the Resolver itself and lets its error through
PermissionChecker_require_direct(userId, resource, action, ord, dbUp) ==
  LET r == CheckPermissionUseCase_execute(userId, resource, action, ord, dbUp)
      base == [threw |-> FALSE, error |-> NoError, value |-> TRUE,
               results |-> EmptyObject, list |-> <<>>,
               fetches |-> r.fetches, resolverCalls |-> 1,
               resolver |-> IF r.threw THEN "threw"
                            ELSE IF r.value THEN "true" ELSE "false",
               logged |-> <<>>]
  IN IF r.threw THEN [base EXCEPT !.threw = TRUE, !.error = r.error, !.value = FALSE]
     ELSE IF ~r.value
          THEN [base EXCEPT !.threw = TRUE, !.error = Forbidden, !.value = FALSE]
          ELSE base

\* variant: the message names what was denied
PermissionChecker_require_detailed(userId, resource, action, ord, dbUp) ==
  LET c == PermissionChecker_check(userId, resource, action, ord, dbUp)
  IN IF ~c.value
     THEN [c EXCEPT !.threw = TRUE,
                    !.error = [message |-> <<"Forbidden">> \o Key([resource |-> resource,
                                                                  action |-> action])],
                    !.value = FALSE]
     ELSE [c EXCEPT !.value = TRUE]

\* if (!hasPermission) throw new Error('Forbidden')
PermissionChecker_require(userId, resource, action, ord, dbUp) ==
  LET c == PermissionChecker_check(userId, resource, action, ord, dbUp)
  IN IF ~c.value
     THEN [c EXCEPT !.threw = TRUE, !.error = Forbidden, !.value = FALSE]
     ELSE [c EXCEPT !.value = TRUE]

\* variant: the catch block returns the empty object
AllFalse_none(checks, i, results) == results

\* the catch block of checkMultiple: every requested key is set to false
RECURSIVE AllFalse(_, _, _)
AllFalse(checks, i, results) ==
  IF i > Len(checks) THEN results
  ELSE AllFalse(checks, i + 1, ObjectSet(results, Key(checks[i]), FALSE))

PermissionChecker_checkMultiple(userId, checks, ord, dbUp) ==
  LET r == CheckPermissionUseCase_checkMultiple(userId, checks, ord, dbUp)
  IN IF r.threw
     THEN [threw |-> FALSE, error |-> NoError, value |-> FALSE,
           results |-> AllFalse(checks, 1, EmptyObject), list |-> <<>>,
           fetches |-> r.fetches, resolverCalls |-> 1, resolver |-> "threw",
           logged |-> <<r.error>>]
     ELSE [threw |-> FALSE, error |-> NoError, value |-> FALSE,
           results |-> r.results, list |-> <<>>,
           fetches |-> r.fetches, resolverCalls |-> 1, resolver |-> "returned",
           logged |-> <<>>]

\* variant: no try/catch around the Resolver
PermissionChecker_getUserPermissions_nocatch(userId, ord, dbUp) ==
  LET r == CheckPermissionUseCase_getUserPermissions(userId, ord, dbUp)
  IN [threw |-> r.threw, error |-> r.error, value |-> FALSE,
      results |-> EmptyObject, list |-> r.list,
      fetches |-> r.fetches, resolverCalls |-> 1,
      resolver |-> IF r.threw THEN "threw" ELSE "returned",
      logged |-> <<>>]

PermissionChecker_getUserPermissions(userId, ord, dbUp) ==
  LET r == CheckPermissionUseCase_getUserPermissions(userId, ord, dbUp)
  IN IF r.threw
     THEN [threw |-> FALSE, error |-> NoError, value |-> FALSE,
           results |-> EmptyObject, list |-> <<>>,
           fetches |-> r.fetches, resolverCalls |-> 1, resolver |-> "threw",
           logged |-> <<r.error>>]
     ELSE [threw |-> FALSE, error |-> NoError, value |-> FALSE,
           results |-> EmptyObject, list |-> r.list,
           fetches |-> r.fetches, resolverCalls |-> 1, resolver |-> "returned",
           logged |-> <<>>]

\* Object.values(results).every((hasPermission) => hasPermission)
PermissionChecker_hasAll(userId, checks, ord, dbUp) ==
  LET m == PermissionChecker_checkMultiple(userId, checks, ord, dbUp)
  IN [m EXCEPT !.value = \A k \in DOMAIN m.results : m.results[k],
               !.results = EmptyObject]

\* variant: hasAny written with every
PermissionChecker_hasAny_every(userId, checks, ord, dbUp) ==
  LET m == PermissionChecker_checkMultiple(userId, checks, ord, dbUp)
  IN [m EXCEPT !.value = \A k \in DOMAIN m.results : m.results[k],
               !.results = EmptyObject]

\* Object.values(results).some((hasPermission) => hasPermission)
PermissionChecker_hasAny(userId, checks, ord, dbUp) ==
  LET m == PermissionChecker_checkMultiple(userId, checks, ord, dbUp)
  IN [m EXCEPT !.value = \E k \in DOMAIN m.results : m.results[k],
               !.results = EmptyObject]

----------------------------------------------------------------------------
(* Audit log data *)

\* a string argument: the code is called with a string or, at run time, with
\* nothing; chars is the sequence of its characters
Str(chars) == [defined |-> TRUE, chars |-> chars]
UndefinedString == [defined |-> FALSE, chars |-> <<>>]

\* JSON payloads (oldValues, newValues, metadata) and their absence
Undefined == "undefined"
Null == "null"
OldPayload == "{name: 'Old'}"
NewPayload == "{name: 'New'}"
Metadata == "{ip: '127.0.0.1'}"

AuditOperation == {"CREATE", "UPDATE", "DELETE", "RESTORE", "READ"}

\* the characters String.prototype.trim removes
Whitespace == {" ", "\t", "\n"}

\* well-formed names, padded with white space
EntityTypeArg == Str(<<" ", "user", " ">>)
EntityIdArg == Str(<<"u1", "\n">>)
ActorIdArgs == { Str(<<"\t", "alice">>), Str(<<"ghost">>) }

\* absent, empty and blank strings
InvalidStrings == { UndefinedString, Str(<<>>), Str(<<" ", "\t">>) }

\* (entityType, entityId, actorId) with exactly one of them absent, empty or blank
InvalidNames ==
  { <<x, EntityIdArg, Str(<<"\t", "alice">>)>> : x \in InvalidStrings }
    \cup { <<EntityTypeArg, x, Str(<<"\t", "alice">>)>> : x \in InvalidStrings }
    \cup { <<EntityTypeArg, EntityIdArg, x>> : x \in InvalidStrings }

ValidNames == { <<EntityTypeArg, EntityIdArg, a>> : a \in ActorIdArgs }

\* (oldValues, newValues, metadata) a caller of log passes
PayloadArgs == { <<Undefined, Undefined, Undefined>>,
                 <<OldPayload, NewPayload, Metadata>> }

Params(operation, names, payloads) ==
  [operation |-> operation,
   entityType |-> names[1], entityId |-> names[2], actorId |-> names[3],
   oldValues |-> payloads[1], newValues |-> payloads[2], metadata |-> payloads[3]]

NoParams == Params("none", <<UndefinedString, UndefinedString, UndefinedString>>,
                   <<Undefined, Undefined, Undefined>>)

\* a row of audit_logs; id and timestamp are given by the database
NoRecord == [id |-> 0, operation |-> "none", entityType |-> <<>>,
             entityId |-> <<>>, actorId |-> <<>>, oldValues |-> Null,
             newValues |-> Null, metadata |-> Null, timestamp |-> 0]

----------------------------------------------------------------------------
(* AuditLogRepository *)

ForeignKeyViolation == [message |-> <<"violates foreign key constraint">>]

\* actor_id references users.id: some row of users has this id
ActorExists(actorId) == \E u \in UserIds : users[u] # "absent" /\ actorId = <<u>>

\* variant: create replaces the record the entity already has
AuditLogRepository_create_replace(data, dbUp) ==
  LET row == [id |-> nextId, operation |-> data.operation,
              entityType |-> data.entityType, entityId |-> data.entityId,
              actorId |-> data.actorId, oldValues |-> data.oldValues,
              newValues |-> data.newValues, metadata |-> data.metadata,
              timestamp |-> nextId]
  IN IF ~dbUp
     THEN [threw |-> TRUE, error |-> DatabaseError, record |-> NoRecord,
           rows |-> auditLogs, inserted |-> FALSE]
     ELSE IF ~ActorExists(data.actorId)
     THEN [threw |-> TRUE, error |-> ForeignKeyViolation, record |-> NoRecord,
           rows |-> auditLogs, inserted |-> FALSE]
     ELSE [threw |-> FALSE, error |-> NoError, record |-> row,
           rows |-> { r \in auditLogs : r.entityType # row.entityType
                                        \/ r.entityId # row.entityId } \cup {row},
           inserted |-> TRUE]

\* insert into audit_logs ... returning: the database gives the row its id
\* (defaultRandom, never used before) and its timestamp (defaultNow, the clock
\* of the database, which is later for a later insert)
AuditLogRepository_create(data, dbUp) ==
  LET row == [id |-> nextId, operation |-> data.operation,
              entityType |-> data.entityType, entityId |-> data.entityId,
              actorId |-> data.actorId, oldValues |-> data.oldValues,
              newValues |-> data.newValues, metadata |-> data.metadata,
              timestamp |-> nextId]
  IN IF ~dbUp
     THEN [threw |-> TRUE, error |-> DatabaseError, record |-> NoRecord,
           rows |-> auditLogs, inserted |-> FALSE]
     ELSE IF ~ActorExists(data.actorId)
     THEN [threw |-> TRUE, error |-> ForeignKeyViolation, record |-> NoRecord,
           rows |-> auditLogs, inserted |-> FALSE]
     ELSE [threw |-> FALSE, error |-> NoError, record |-> row,
           rows |-> auditLogs \cup {row}, inserted |-> TRUE]

\* select ... where id = ? limit 1; results[0] || null
AuditLogRepository_findById(id, dbUp) ==
  IF ~dbUp
  THEN [threw |-> TRUE, error |-> DatabaseError, record |-> NoRecord]
  ELSE IF \E r \in auditLogs : r.id = id
  THEN [threw |-> FALSE, error |-> NoError,
        record |-> CHOOSE r \in auditLogs : r.id = id]
  ELSE [threw |-> FALSE, error |-> NoError, record |-> NoRecord]

\* the row of rows with the latest timestamp
Latest(rows) == CHOOSE r \in rows : \A q \in rows : q.timestamp <= r.timestamp

\* order by timestamp desc
RECURSIVE OrderByTimestampDesc(_)
OrderByTimestampDesc(rows) ==
  IF rows = {} THEN <<>>
  ELSE <<Latest(rows)>> \o OrderByTimestampDesc(rows \ {Latest(rows)})

\* select ... where entity_type = ? and entity_id = ? order by timestamp desc
AuditLogRepository_findByEntity(entityType, entityId, dbUp) ==
  IF ~dbUp
  THEN [threw |-> TRUE, error |-> DatabaseError, rows |-> <<>>]
  ELSE [threw |-> FALSE, error |-> NoError,
        rows |-> OrderByTimestampDesc({ r \in auditLogs :
                                         /\ r.entityType = entityType
                                         /\ r.entityId = entityId })]

\* JavaScript numbers: an integer, NaN, Infinity, -Infinity, or no argument
Num(n) == [kind |-> "number", n |-> n]
NaN == [kind |-> "NaN", n |-> 0]
Infinity == [kind |-> "Infinity", n |-> 0]
NegativeInfinity == [kind |-> "-Infinity", n |-> 0]
UndefinedNumber == [kind |-> "undefined", n |-> 0]

\* a < b on numbers that are not NaN
LessThan(a, b) ==
  \/ a.kind = "-Infinity" /\ b.kind # "-Infinity"
  \/ b.kind = "Infinity" /\ a.kind # "Infinity"
  \/ a.kind = "number" /\ b.kind = "number" /\ a.n < b.n

\* Math.min, Math.max
MathMin(a, b) ==
  IF a.kind = "NaN" \/ b.kind = "NaN" THEN NaN ELSE IF LessThan(b, a) THEN b ELSE a
MathMax(a, b) ==
  IF a.kind = "NaN" \/ b.kind = "NaN" THEN NaN ELSE IF LessThan(a, b) THEN b ELSE a

\* a parameter with a default value: the default stands in for undefined only
DefaultParameter(value, default) ==
  IF value.kind = "undefined" THEN Num(default) ELSE value

\* Number(value) || fallback: NaN and 0 are falsy
NumberOr(value, fallback) ==
  IF value.kind = "NaN" \/ (value.kind = "number" /\ value.n = 0)
  THEN Num(fallback) ELSE value

\* the page size findAll uses when it is given none
DEFAULT_LIMIT == 100
\* the largest page findAll returns
MAX_LIMIT == 1000

\* .limit(n).offset(k) of an ordered result
LimitOffset(list, n, k) ==
  IF k >= Len(list) THEN <<>>
  ELSE SubSeq(list, k + 1, IF k + n < Len(list) THEN k + n ELSE Len(list))

\* variant: the limit is not clamped to MAX_LIMIT
AuditLogRepository_findAll_unclamped(limit, offset, dbUp) ==
  LET safeLimit == MathMax(Num(1),
                           NumberOr(DefaultParameter(limit, DEFAULT_LIMIT), DEFAULT_LIMIT))
      safeOffset == MathMax(Num(0), NumberOr(DefaultParameter(offset, 0), 0))
  IN IF ~dbUp
     THEN [threw |-> TRUE, error |-> DatabaseError, safeLimit |-> safeLimit,
           safeOffset |-> safeOffset, rows |-> <<>>]
     ELSE [threw |-> FALSE, error |-> NoError, safeLimit |-> safeLimit,
           safeOffset |-> safeOffset,
           rows |-> IF safeLimit.kind = "number"
                    THEN LimitOffset(OrderByTimestampDesc(auditLogs),
                                     safeLimit.n, safeOffset.n)
                    ELSE OrderByTimestampDesc(auditLogs)]

\* findAll(limit = 100, offset = 0): both are clamped, then
\* select ... order by timestamp desc limit safeLimit offset safeOffset
AuditLogRepository_findAll(limit, offset, dbUp) ==
  LET safeLimit == MathMax(Num(1),
                           MathMin(NumberOr(DefaultParameter(limit, DEFAULT_LIMIT),
                                            DEFAULT_LIMIT),
                                   Num(MAX_LIMIT)))
      safeOffset == MathMax(Num(0), NumberOr(DefaultParameter(offset, 0), 0))
  IN IF ~dbUp
     THEN [threw |-> TRUE, error |-> DatabaseError, safeLimit |-> safeLimit,
           safeOffset |-> safeOffset, rows |-> <<>>]
     ELSE [threw |-> FALSE, error |-> NoError, safeLimit |-> safeLimit,
           safeOffset |-> safeOffset,
           rows |-> LimitOffset(OrderByTimestampDesc(auditLogs),
                                safeLimit.n, safeOffset.n)]

----------------------------------------------------------------------------
(* AuditLogger *)

EntityTypeEmpty == [message |-> <<"entityType cannot be empty">>]
EntityIdEmpty == [message |-> <<"entityId cannot be empty">>]
ActorIdEmpty == [message |-> <<"actorId cannot be empty">>]

RECURSIVE TrimStart(_)
TrimStart(chars) ==
  IF chars # <<>> /\ Head(chars) \in Whitespace THEN TrimStart(Tail(chars))
  ELSE chars

RECURSIVE TrimEnd(_)
TrimEnd(chars) ==
  IF chars # <<>> /\ chars[Len(chars)] \in Whitespace
  THEN TrimEnd(SubSeq(chars, 1, Len(chars) - 1))
  ELSE chars

\* String.prototype.trim
Trim(chars) == TrimEnd(TrimStart(chars))

\* !str || str.trim() === ''
IsEmpty(str) == ~str.defined \/ str.chars = <<>> \/ Trim(str.chars) = <<>>

\* value ?? null
OrNull(value) == IF value = Undefined THEN Null ELSE value

\* the log call of a validation failure: nothing reaches the repository
Rejected(error) ==
  [threw |-> TRUE, error |-> error, record |-> NoRecord, creates |-> <<>>,
   rows |-> auditLogs, inserted |-> FALSE]

AuditLogData(params) ==
  [operation |-> params.operation,
   entityType |-> Trim(params.entityType.chars),
   entityId |-> Trim(params.entityId.chars),
   actorId |-> Trim(params.actorId.chars),
   oldValues |-> OrNull(params.oldValues),
   newValues |-> OrNull(params.newValues),
   metadata |-> OrNull(params.metadata)]

\* variant: the three checks of the required parameters are missing
AuditLogger_log_unchecked(params, dbUp) ==
  LET auditLogData == AuditLogData(params)
      created == AuditLogRepository_create(auditLogData, dbUp)
  IN [threw |-> created.threw, error |-> created.error,
      record |-> created.record, creates |-> <<auditLogData>>,
      rows |-> created.rows, inserted |-> created.inserted]

\* variant: a failed write is caught and reported as a return
AuditLogger_log_caught(params, dbUp) ==
  LET auditLogData == AuditLogData(params)
      created == AuditLogRepository_create(auditLogData, dbUp)
  IN IF IsEmpty(params.entityType) THEN Rejected(EntityTypeEmpty)
     ELSE IF IsEmpty(params.entityId) THEN Rejected(EntityIdEmpty)
     ELSE IF IsEmpty(params.actorId) THEN Rejected(ActorIdEmpty)
     ELSE [threw |-> FALSE, error |-> NoError,
           record |-> created.record, creates |-> <<auditLogData>>,
           rows |-> created.rows, inserted |-> created.inserted]

AuditLogger_log(params, dbUp) ==
  LET auditLogData == AuditLogData(params)
      created == AuditLogRepository_create(auditLogData, dbUp)
  IN IF IsEmpty(params.entityType) THEN Rejected(EntityTypeEmpty)
     ELSE IF IsEmpty(params.entityId) THEN Rejected(EntityIdEmpty)
     ELSE IF IsEmpty(params.actorId) THEN Rejected(ActorIdEmpty)
     ELSE [threw |-> created.threw, error |-> created.error,
           record |-> created.record, creates |-> <<auditLogData>>,
           rows |-> created.rows, inserted |-> created.inserted]

\* variant: logCreate passes the payload as oldValues
AuditLogger_logCreate_asOld(entityType, entityId, actorId, newValues, metadata, dbUp) ==
  AuditLogger_log(Params("CREATE", <<entityType, entityId, actorId>>,
                         <<newValues, Null, metadata>>), dbUp)

AuditLogger_logCreate(entityType, entityId, actorId, newValues, metadata, dbUp) ==
  AuditLogger_log(Params("CREATE", <<entityType, entityId, actorId>>,
                         <<Null, newValues, metadata>>), dbUp)

AuditLogger_logUpdate(entityType, entityId, actorId, oldValues, newValues, metadata, dbUp) ==
  AuditLogger_log(Params("UPDATE", <<entityType, entityId, actorId>>,
                         <<oldValues, newValues, metadata>>), dbUp)

AuditLogger_logDelete(entityType, entityId, actorId, oldValues, metadata, dbUp) ==
  AuditLogger_log(Params("DELETE", <<entityType, entityId, actorId>>,
                         <<oldValues, Null, metadata>>), dbUp)

AuditLogger_logRestore(entityType, entityId, actorId, newValues, metadata, dbUp) ==
  AuditLogger_log(Params("RESTORE", <<entityType, entityId, actorId>>,
                         <<Null, newValues, metadata>>), dbUp)

AuditLogger_logRead(entityType, entityId, actorId, metadata, dbUp) ==
  AuditLogger_log(Params("READ", <<entityType, entityId, actorId>>,
                         <<Null, Null, metadata>>), dbUp)

----------------------------------------------------------------------------
(* UserRepository and BaseRepository over the users table *)

\* the columns of a row: users[u] tells whether u has a row and whether its
\* deletedAt is set, userData[u] holds its email and its name
NoData == [email |-> "", name |-> ""]
InitialData(u) == [email |-> u \o "@x", name |-> "N0"]

\* a User, and null
UserRow(u) == [id |-> u, email |-> userData[u].email, name |-> userData[u].name,
               deletedAt |-> users[u] = "deleted"]
NullUser == [id |-> "", email |-> "", name |-> "", deletedAt |-> FALSE]

UniqueViolation == [message |-> <<"duplicate key value violates unique constraint">>]
UserNotFound == [message |-> <<"User not found">>]
UserAlreadyExists == [message |-> <<"User with this email already exists">>]

\* what a query or a statement on users answers: the promise rejects or gives
\* a User or null, and the table is as the statement leaves it
Rejects(error) ==
  [threw |-> TRUE, error |-> error, user |-> NullUser, users |-> users,
   userData |-> userData, wrote |-> FALSE]
Gives(user) ==
  [threw |-> FALSE, error |-> NoError, user |-> user, users |-> users,
   userData |-> userData, wrote |-> FALSE]

\* select ... where id = ? limit 1; null for no row and for a soft-deleted row
BaseRepository_findById(id, dbUp) ==
  IF ~dbUp THEN Rejects(DatabaseError)
  ELSE IF id \notin UserIds \/ users[id] = "absent" THEN Gives(NullUser)
  ELSE IF UserRow(id).deletedAt THEN Gives(NullUser)
  ELSE Gives(UserRow(id))

\* the rows that hold this email
RowsWithEmail(email) ==
  { u \in UserIds : users[u] # "absent" /\ userData[u].email = email }

\* select ... where email = ? limit 1; null for no row and for a soft-deleted row
UserRepository_findByEmail(email, dbUp) ==
  IF ~dbUp THEN Rejects(DatabaseError)
  ELSE IF RowsWithEmail(email) = {} THEN Gives(NullUser)
  ELSE LET user == UserRow(CHOOSE u \in RowsWithEmail(email) : TRUE)
       IN IF user.deletedAt THEN Gives(NullUser) ELSE Gives(user)

\* users.email is unique: no row, soft-deleted or not, holds this email
EmailIsFree(email) == RowsWithEmail(email) = {}

\* the id the database gives to the next row of users
CanInsertUser == \E i \in 1..MaxNewUsers : users[NewUserId(i)] = "absent"
NextUserId ==
  NewUserId(CHOOSE i \in 1..MaxNewUsers :
              /\ users[NewUserId(i)] = "absent"
              /\ \A j \in 1..(i - 1) : users[NewUserId(j)] # "absent")

\* insert into users values (data) returning
UserRepository_createUser(data, dbUp) ==
  IF ~dbUp THEN Rejects(DatabaseError)
  ELSE IF ~EmailIsFree(data.email) THEN Rejects(UniqueViolation)
  ELSE [threw |-> FALSE, error |-> NoError,
        user |-> [id |-> NextUserId, email |-> data.email, name |-> data.name,
                  deletedAt |-> FALSE],
        users |-> [users EXCEPT ![NextUserId] = "live"],
        userData |-> [userData EXCEPT ![NextUserId] = data],
        wrote |-> TRUE]

\* update users set ...data, updatedAt where id = ? returning; result[0] || null
UserRepository_updateUser(id, data, dbUp) ==
  IF ~dbUp THEN Rejects(DatabaseError)
  ELSE IF id \notin UserIds \/ users[id] = "absent" THEN Gives(NullUser)
  ELSE [threw |-> FALSE, error |-> NoError,
        user |-> [UserRow(id) EXCEPT !.name = data.name],
        users |-> users,
        userData |-> [userData EXCEPT ![id].name = data.name],
        wrote |-> TRUE]

\* select ... where deleted_at is null
BaseRepository_findAll(dbUp) ==
  IF ~dbUp THEN [threw |-> TRUE, error |-> DatabaseError, list |-> {}]
  ELSE [threw |-> FALSE, error |-> NoError,
        list |-> { UserRow(u) : u \in { v \in UserIds : users[v] = "live" } }]

\* update users set deletedAt, updatedAt where id = ? returning; result[0] || null
UserRepository_deleteUser(id, dbUp) ==
  IF ~dbUp THEN Rejects(DatabaseError)
  ELSE IF id \notin UserIds \/ users[id] = "absent" THEN Gives(NullUser)
  ELSE [threw |-> FALSE, error |-> NoError,
        user |-> [UserRow(id) EXCEPT !.deletedAt = TRUE],
        users |-> [users EXCEPT ![id] = "deleted"],
        userData |-> userData,
        wrote |-> TRUE]

----------------------------------------------------------------------------
(* State *)

Idle == [op |-> "idle", userId |-> "ghost", resource |-> <<>>, action |-> <<>>,
         checks |-> <<>>, params |-> NoParams, dbUp |-> TRUE]
NoReturn == [threw |-> FALSE, error |-> NoError, value |-> FALSE,
             results |-> EmptyObject, list |-> <<>>, record |-> NoRecord]
NoTrace == [fetches |-> <<>>, setSize |-> 0, compared |-> <<>>,
            resolverCalls |-> 0, resolver |-> "none", logged |-> <<>>,
            creates |-> <<>>]

\* the calls that run concurrently
Threads == {"t1", "t2"}

\* a call in progress: its operation and arguments, where it stands (pc), its
\* local variables, how it ended (threw, error, record, list), and what it did
\* so far: the collaborators it invoked (calls), whether the Guard let it pass
\* (authorized), the row that held its id or email when its write statement
\* ran (before) and whether its write took place (committed)
NoThread ==
  [op |-> "idle", pc |-> "idle", actorId |-> "", id |-> "", email |-> "", name |-> "",
   params |-> NoParams, oldUser |-> NullUser, existingUser |-> NullUser,
   user |-> NullUser, threw |-> FALSE, error |-> NoError, record |-> NoRecord,
   list |-> {}, calls |-> <<>>, authorized |-> FALSE, before |-> NullUser,
   committed |-> FALSE]

\* no list query was made
NoFind == [entityType |-> <<>>, entityId |-> <<>>,
           limit |-> UndefinedNumber, offset |-> UndefinedNumber,
           safeLimit |-> Num(0), safeOffset |-> Num(0), rows |-> <<>>]

Init ==
  /\ userRoles = [c \in Users \X Roles |-> 0]
  /\ rolePermissions = [c \in Roles \X PermIds |-> 0]
  /\ rolesDeletedAt = [r \in Roles |-> FALSE]
  /\ permissionsDeletedAt = [p \in PermIds |-> FALSE]
  /\ users = [u \in UserIds |-> IF u \in ExistingUsers THEN "live" ELSE "absent"]
  /\ userData = [u \in UserIds |-> IF u \in ExistingUsers THEN InitialData(u) ELSE NoData]
  /\ threads = [t \in Threads |-> NoThread]
  /\ auditLogs = {}
  /\ nextId = 1
  /\ find = NoFind
  /\ call = Idle
  /\ ret = NoReturn
  /\ trace = NoTrace

----------------------------------------------------------------------------
(* The Permission Store: link rows are inserted and hard-deleted, roles and *)
(* permissions are soft-deleted and restored                                *)

AssignUserRole(u, r) ==
  /\ call.op = "idle"
  /\ users[u] # "absent"
  /\ UserRoleRows < MaxUserRoleRows
  /\ userRoles' = [userRoles EXCEPT ![<<u, r>>] = @ + 1]
  /\ UNCHANGED <<rolePermissions, rolesDeletedAt, permissionsDeletedAt, call, ret, trace,
               users, auditLogs, nextId, app, find>>

RemoveUserRole(u, r) ==
  /\ call.op = "idle"
  /\ userRoles[<<u, r>>] > 0
  /\ userRoles' = [userRoles EXCEPT ![<<u, r>>] = @ - 1]
  /\ UNCHANGED <<rolePermissions, rolesDeletedAt, permissionsDeletedAt, call, ret, trace,
               users, auditLogs, nextId, app, find>>

AssignRolePermission(r, p) ==
  /\ call.op = "idle"
  /\ RolePermissionRows < MaxRolePermissionRows
  /\ rolePermissions' = [rolePermissions EXCEPT ![<<r, p>>] = @ + 1]
  /\ UNCHANGED <<userRoles, rolesDeletedAt, permissionsDeletedAt, call, ret, trace,
               users, auditLogs, nextId, app, find>>

RemoveRolePermission(r, p) ==
  /\ call.op = "idle"
  /\ rolePermissions[<<r, p>>] > 0
  /\ rolePermissions' = [rolePermissions EXCEPT ![<<r, p>>] = @ - 1]
  /\ UNCHANGED <<userRoles, rolesDeletedAt, permissionsDeletedAt, call, ret, trace,
               users, auditLogs, nextId, app, find>>

\* BaseRepository.softDelete / restore on the roles table
SoftDeleteRole(r) ==
  /\ call.op = "idle"
  /\ rolesDeletedAt' = [rolesDeletedAt EXCEPT ![r] = TRUE]
  /\ rolesDeletedAt' # rolesDeletedAt
  /\ UNCHANGED <<userRoles, rolePermissions, permissionsDeletedAt, call, ret, trace,
               users, auditLogs, nextId, app, find>>

RestoreRole(r) ==
  /\ call.op = "idle"
  /\ rolesDeletedAt' = [rolesDeletedAt EXCEPT ![r] = FALSE]
  /\ rolesDeletedAt' # rolesDeletedAt
  /\ UNCHANGED <<userRoles, rolePermissions, permissionsDeletedAt, call, ret, trace,
               users, auditLogs, nextId, app, find>>

\* PermissionRepository.deletePermission / BaseRepository.restore
SoftDeletePermission(p) ==
  /\ call.op = "idle"
  /\ permissionsDeletedAt' = [permissionsDeletedAt EXCEPT ![p] = TRUE]
  /\ permissionsDeletedAt' # permissionsDeletedAt
  /\ UNCHANGED <<userRoles, rolePermissions, rolesDeletedAt, call, ret, trace,
               users, auditLogs, nextId, app, find>>

RestorePermission(p) ==
  /\ call.op = "idle"
  /\ permissionsDeletedAt' = [permissionsDeletedAt EXCEPT ![p] = FALSE]
  /\ permissionsDeletedAt' # permissionsDeletedAt
  /\ UNCHANGED <<userRoles, rolePermissions, rolesDeletedAt, call, ret, trace,
               users, auditLogs, nextId, app, find>>

LinkChange ==
  \/ \E u \in ExistingUsers, r \in Roles : AssignUserRole(u, r)
  \/ \E u \in ExistingUsers, r \in Roles : RemoveUserRole(u, r)
  \/ \E r \in Roles, p \in PermIds : AssignRolePermission(r, p)
  \/ \E r \in Roles, p \in PermIds : RemoveRolePermission(r, p)

SoftDeleteChange ==
  \/ \E r \in Roles : SoftDeleteRole(r)
  \/ \E r \in Roles : RestoreRole(r)
  \/ \E p \in PermIds : SoftDeletePermission(p)
  \/ \E p \in PermIds : RestorePermission(p)

----------------------------------------------------------------------------
(* Calls of the Resolver: each is one query and an in-memory computation    *)

Single(op, u, c, up) ==
  [op |-> op, userId |-> u, resource |-> c.resource, action |-> c.action,
   checks |-> <<>>, params |-> NoParams, dbUp |-> up]
Batch(op, u, cs, up) ==
  [op |-> op, userId |-> u, resource |-> <<>>, action |-> <<>>,
   checks |-> cs, params |-> NoParams, dbUp |-> up]

ResolverReturn(r) ==
  [threw |-> r.threw, error |-> r.error, value |-> r.value,
   results |-> r.results, list |-> r.list, record |-> NoRecord]
ResolverTrace(r) ==
  [fetches |-> r.fetches, setSize |-> r.setSize, compared |-> r.compared,
   resolverCalls |-> 1,
   resolver |-> IF r.threw THEN "threw" ELSE "returned",
   logged |-> <<>>, creates |-> <<>>]

Execute ==
  /\ call.op = "idle"
  /\ \E u \in Users, c \in CheckPairs, ord \in PermOrders, up \in BOOLEAN :
       LET r == CheckPermissionUseCase_execute(u, c.resource, c.action, ord, up)
       IN /\ call' = Single("execute", u, c, up)
          /\ ret' = ResolverReturn(r)
          /\ trace' = ResolverTrace(r)
  /\ UNCHANGED <<store, find>>

GetUserPermissions ==
  /\ call.op = "idle"
  /\ \E u \in Users, ord \in PermOrders, up \in BOOLEAN :
       LET r == CheckPermissionUseCase_getUserPermissions(u, ord, up)
       IN /\ call' = Batch("getUserPermissions", u, <<>>, up)
          /\ ret' = ResolverReturn(r)
          /\ trace' = ResolverTrace(r)
  /\ UNCHANGED <<store, find>>

CheckMultiple ==
  /\ call.op = "idle"
  /\ \E u \in Users, cs \in CheckLists, ord \in PermOrders, up \in BOOLEAN :
       LET r == CheckPermissionUseCase_checkMultiple(u, cs, ord, up)
       IN /\ call' = Batch("checkMultiple", u, cs, up)
          /\ ret' = ResolverReturn(r)
          /\ trace' = ResolverTrace(r)
  /\ UNCHANGED <<store, find>>

----------------------------------------------------------------------------
(* Calls of the Guard *)

GuardReturn(g) ==
  [threw |-> g.threw, error |-> g.error, value |-> g.value,
   results |-> g.results, list |-> g.list, record |-> NoRecord]
GuardTrace(g) ==
  [fetches |-> g.fetches, setSize |-> 0, compared |-> <<>>,
   resolverCalls |-> g.resolverCalls, resolver |-> g.resolver,
   logged |-> g.logged, creates |-> <<>>]

Check ==
  /\ call.op = "idle"
  /\ \E u \in Users, c \in CheckPairs, ord \in PermOrders, up \in BOOLEAN :
       LET g == PermissionChecker_check(u, c.resource, c.action, ord, up)
       IN /\ call' = Single("check", u, c, up)
          /\ ret' = GuardReturn(g)
          /\ trace' = GuardTrace(g)
  /\ UNCHANGED <<store, find>>

Require ==
  /\ call.op = "idle"
  /\ \E u \in Users, c \in CheckPairs, ord \in PermOrders, up \in BOOLEAN :
       LET g == PermissionChecker_require(u, c.resource, c.action, ord, up)
       IN /\ call' = Single("require", u, c, up)
          /\ ret' = GuardReturn(g)
          /\ trace' = GuardTrace(g)
  /\ UNCHANGED <<store, find>>

HasAll ==
  /\ call.op = "idle"
  /\ \E u \in Users, cs \in CheckLists, ord \in PermOrders, up \in BOOLEAN :
       LET g == PermissionChecker_hasAll(u, cs, ord, up)
       IN /\ call' = Batch("hasAll", u, cs, up)
          /\ ret' = GuardReturn(g)
          /\ trace' = GuardTrace(g)
  /\ UNCHANGED <<store, find>>

HasAny ==
  /\ call.op = "idle"
  /\ \E u \in Users, cs \in CheckLists, ord \in PermOrders, up \in BOOLEAN :
       LET g == PermissionChecker_hasAny(u, cs, ord, up)
       IN /\ call' = Batch("hasAny", u, cs, up)
          /\ ret' = GuardReturn(g)
          /\ trace' = GuardTrace(g)
  /\ UNCHANGED <<store, find>>

CheckerCheckMultiple ==
  /\ call.op = "idle"
  /\ \E u \in Users, cs \in CheckLists, ord \in PermOrders, up \in BOOLEAN :
       LET g == PermissionChecker_checkMultiple(u, cs, ord, up)
       IN /\ call' = Batch("checker.checkMultiple", u, cs, up)
          /\ ret' = GuardReturn(g)
          /\ trace' = GuardTrace(g)
  /\ UNCHANGED <<store, find>>

CheckerGetUserPermissions ==
  /\ call.op = "idle"
  /\ \E u \in Users, ord \in PermOrders, up \in BOOLEAN :
       LET g == PermissionChecker_getUserPermissions(u, ord, up)
       IN /\ call' = Batch("checker.getUserPermissions", u, <<>>, up)
          /\ ret' = GuardReturn(g)
          /\ trace' = GuardTrace(g)
  /\ UNCHANGED <<store, find>>

----------------------------------------------------------------------------
(* The users table: UserRepository.deleteUser / restoreUser soft-delete and *)
(* restore a user, BaseRepository.hardDelete removes the row; user_roles    *)
(* and audit_logs reference users.id with onDelete: 'cascade'               *)

SoftDeleteUser(u) ==
  /\ call.op = "idle"
  /\ users[u] = "live"
  /\ users' = [users EXCEPT ![u] = "deleted"]
  /\ UNCHANGED <<userRoles, rolePermissions, rolesDeletedAt, permissionsDeletedAt,
                 auditLogs, nextId, call, ret, trace, app, find>>

RestoreUser(u) ==
  /\ call.op = "idle"
  /\ users[u] = "deleted"
  /\ users' = [users EXCEPT ![u] = "live"]
  /\ UNCHANGED <<userRoles, rolePermissions, rolesDeletedAt, permissionsDeletedAt,
                 auditLogs, nextId, call, ret, trace, app, find>>

HardDeleteUser(u) ==
  /\ call.op = "idle"
  /\ users[u] # "absent"
  /\ users' = [users EXCEPT ![u] = "absent"]
  /\ userRoles' = [c \in DOMAIN userRoles |-> IF c[1] = u THEN 0 ELSE userRoles[c]]
  /\ auditLogs' = { r \in auditLogs : r.actorId # <<u>> }
  /\ UNCHANGED <<rolePermissions, rolesDeletedAt, permissionsDeletedAt,
                 nextId, call, ret, trace, app, find>>

UserSoftDeleteChange ==
  \/ \E u \in Users : SoftDeleteUser(u)
  \/ \E u \in Users : RestoreUser(u)

----------------------------------------------------------------------------
(* Calls of the Audit Recorder and of the Audit Store *)

AuditCall(op, params, up) == [Idle EXCEPT !.op = op, !.params = params, !.dbUp = up]
AuditReturn(r) == [NoReturn EXCEPT !.threw = r.threw, !.error = r.error,
                                   !.record = r.record]
AuditTrace(r) == [NoTrace EXCEPT !.creates = r.creates]

\* the call is made and the row, if one was inserted, is in the table
Logged(op, params, up, r) ==
  /\ r.inserted => nextId <= MaxAuditLogs
  /\ call' = AuditCall(op, params, up)
  /\ ret' = AuditReturn(r)
  /\ trace' = AuditTrace(r)
  /\ auditLogs' = r.rows
  /\ nextId' = IF r.inserted THEN nextId + 1 ELSE nextId
  /\ UNCHANGED <<userRoles, rolePermissions, rolesDeletedAt, permissionsDeletedAt,
                 users, app, find>>

\* the arguments of log: well-formed names with either payloads, or one
\* name absent, empty or blank
LogArgs == (ValidNames \X PayloadArgs)
             \cup (InvalidNames \X {<<OldPayload, NewPayload, Metadata>>})

HelperNames == ValidNames \cup InvalidNames

Log ==
  /\ call.op = "idle"
  /\ \E operation \in AuditOperation, a \in LogArgs, up \in BOOLEAN :
       LET params == Params(operation, a[1], a[2])
       IN Logged("log", params, up, AuditLogger_log(params, up))

LogCreate ==
  /\ call.op = "idle"
  /\ \E n \in HelperNames, up \in BOOLEAN :
       Logged("logCreate", Params("CREATE", n, <<Undefined, NewPayload, Metadata>>), up,
              AuditLogger_logCreate(n[1], n[2], n[3], NewPayload, Metadata, up))

LogUpdate ==
  /\ call.op = "idle"
  /\ \E n \in HelperNames, up \in BOOLEAN :
       Logged("logUpdate", Params("UPDATE", n, <<OldPayload, NewPayload, Metadata>>), up,
              AuditLogger_logUpdate(n[1], n[2], n[3], OldPayload, NewPayload,
                                    Metadata, up))

LogDelete ==
  /\ call.op = "idle"
  /\ \E n \in HelperNames, up \in BOOLEAN :
       Logged("logDelete", Params("DELETE", n, <<OldPayload, Undefined, Metadata>>), up,
              AuditLogger_logDelete(n[1], n[2], n[3], OldPayload, Metadata, up))

LogRestore ==
  /\ call.op = "idle"
  /\ \E n \in HelperNames, up \in BOOLEAN :
       Logged("logRestore", Params("RESTORE", n, <<Undefined, NewPayload, Metadata>>), up,
              AuditLogger_logRestore(n[1], n[2], n[3], NewPayload, Metadata, up))

LogRead ==
  /\ call.op = "idle"
  /\ \E n \in HelperNames, up \in BOOLEAN :
       Logged("logRead", Params("READ", n, <<Undefined, Undefined, Metadata>>), up,
              AuditLogger_logRead(n[1], n[2], n[3], Metadata, up))

FindById ==
  /\ call.op = "idle"
  /\ \E id \in 1..MaxAuditLogs, up \in BOOLEAN :
       LET r == AuditLogRepository_findById(id, up)
       IN /\ call' = [Idle EXCEPT !.op = "findById", !.dbUp = up]
          /\ ret' = AuditReturn(r)
          /\ trace' = NoTrace
  /\ UNCHANGED <<store, find>>

\* the limits and offsets a caller passes: none, in range, out of range,
\* negative, zero, not a number, infinite
LimitArgs == { UndefinedNumber, NaN, Infinity, NegativeInfinity }
               \cup { Num(n) : n \in {-5, 0, 1, 2, 100, 1000, 1001, 5000, 100000} }
OffsetArgs == { UndefinedNumber, NaN, Num(-1), Num(0), Num(1) }

FindAll ==
  /\ call.op = "idle"
  /\ \E limit \in LimitArgs, offset \in OffsetArgs, up \in BOOLEAN :
       LET r == AuditLogRepository_findAll(limit, offset, up)
       IN /\ call' = [Idle EXCEPT !.op = "findAll", !.dbUp = up]
          /\ ret' = AuditReturn([threw |-> r.threw, error |-> r.error,
                                 record |-> NoRecord])
          /\ trace' = NoTrace
          /\ find' = [NoFind EXCEPT !.limit = limit, !.offset = offset,
                                     !.safeLimit = r.safeLimit,
                                     !.safeOffset = r.safeOffset, !.rows = r.rows]
  /\ UNCHANGED <<userRoles, rolePermissions, rolesDeletedAt, permissionsDeletedAt,
                 users, auditLogs, nextId, userData, threads>>

\* the entities a caller asks about and writes records for
EntityIds == {"u1", "u2"}

FindByEntity ==
  /\ call.op = "idle"
  /\ \E entityId \in EntityIds, up \in BOOLEAN :
       LET r == AuditLogRepository_findByEntity(<<"user">>, <<entityId>>, up)
       IN /\ call' = [Idle EXCEPT !.op = "findByEntity", !.dbUp = up]
          /\ ret' = AuditReturn([threw |-> r.threw, error |-> r.error,
                                 record |-> NoRecord])
          /\ trace' = NoTrace
          /\ find' = [NoFind EXCEPT !.entityType = <<"user">>,
                                     !.entityId = <<entityId>>, !.rows = r.rows]
  /\ UNCHANGED <<userRoles, rolePermissions, rolesDeletedAt, permissionsDeletedAt,
                 users, auditLogs, nextId, userData, threads>>

\* the caller has its answer
Return ==
  /\ call.op # "idle"
  /\ call' = Idle
  /\ ret' = NoReturn
  /\ trace' = NoTrace
  /\ find' = NoFind
  /\ UNCHANGED store

----------------------------------------------------------------------------
(* Concurrent calls: each call runs from one await to the next in one step, *)
(* and the steps of the calls in progress interleave                        *)

\* what a step of a call leaves alone besides the tables it writes
permissionStore == <<userRoles, rolePermissions, rolesDeletedAt, permissionsDeletedAt>>
caller == <<call, ret, trace, find>>

\* the users that have a row
UsersWithRow == { u \in UserIds : users[u] # "absent" }

\* a first row is inserted into users (UserRepository.createUser, called
\* directly): from then on two users have a row
InsertUser ==
  /\ users[NewUserId(1)] = "absent"
  /\ \E email \in {"a@x"} :
       LET r == UserRepository_createUser([email |-> email, name |-> "N0"], TRUE)
       IN /\ ~r.threw
          /\ users' = r.users
          /\ userData' = r.userData
  /\ UNCHANGED <<permissionStore, caller, auditLogs, nextId, threads>>

NewerPayload == "{name: 'Newer'}"

\* auditLogger.logUpdate('user', entityId, actorId, oldValues, newValues) is
\* called: the call runs up to its await of auditLogRepository.create
LogUpdateCall(t) ==
  /\ threads[t].op = "idle"
  /\ \E actor \in UsersWithRow, entityId \in {"u1"},
        values \in { <<OldPayload, NewPayload>>, <<NewPayload, NewerPayload>> } :
       threads' = [threads EXCEPT ![t] =
                     [NoThread EXCEPT !.op = "logUpdate", !.pc = "audit",
                                      !.actorId = actor,
                                      !.params = Params("UPDATE",
                                                        <<Str(<<"user">>), Str(<<entityId>>),
                                                          Str(<<actor>>)>>,
                                                        <<values[1], values[2], Undefined>>)]]
  /\ UNCHANGED <<permissionStore, caller, users, userData, auditLogs, nextId>>

\* the AuditLogger's helper a call awaits, by the operation of its params
AuditLoggerCall(p, dbUp) ==
  CASE p.operation = "CREATE" ->
         AuditLogger_logCreate(p.entityType, p.entityId, p.actorId, p.newValues,
                               p.metadata, dbUp)
    [] p.operation = "UPDATE" ->
         AuditLogger_logUpdate(p.entityType, p.entityId, p.actorId, p.oldValues,
                               p.newValues, p.metadata, dbUp)
    [] OTHER ->
         AuditLogger_logDelete(p.entityType, p.entityId, p.actorId, p.oldValues,
                               p.metadata, dbUp)

\* the AuditLogger validates the call's params and its insert takes place, or
\* the call is rejected
AuditWrite(t) ==
  /\ threads[t].pc = "audit"
  /\ \E up \in BOOLEAN :
       LET r == AuditLoggerCall(threads[t].params, up)
       IN /\ r.inserted => nextId <= MaxAuditLogs
          /\ auditLogs' = r.rows
          /\ nextId' = IF r.inserted THEN nextId + 1 ELSE nextId
          /\ threads' = [threads EXCEPT ![t].pc = "done", ![t].threw = r.threw,
                                        ![t].error = r.error, ![t].record = r.record,
                                        ![t].calls = Append(@, "auditLogger")]
  /\ UNCHANGED <<permissionStore, caller, users, userData>>

\* the caller of a finished call has its answer
Settle(t) ==
  /\ threads[t].pc = "done"
  /\ threads' = [threads EXCEPT ![t] = NoThread]
  /\ UNCHANGED <<permissionStore, caller, users, userData, auditLogs, nextId>>

----------------------------------------------------------------------------
(* The use cases: each is given the call at one of its awaits and answers   *)
(* the call as the awaited statement leaves it, with the table              *)

\* the call ends with a rejection
Thrown(th, error) == [th EXCEPT !.pc = "done", !.threw = TRUE, !.error = error]

\* the row that holds the id, and the live row that holds the email, if any
RowWithId(id) ==
  IF id \in UserIds /\ users[id] # "absent" THEN UserRow(id) ELSE NullUser
LiveRowWithEmail(email) ==
  IF \E u \in RowsWithEmail(email) : users[u] = "live"
  THEN UserRow(CHOOSE u \in RowsWithEmail(email) : users[u] = "live")
  ELSE NullUser

\* findByEmail, throw if a user exists, createUser
CreateUserUseCase_execute(th, dbUp) ==
  IF th.pc = "existingUser"
  THEN LET r == UserRepository_findByEmail(th.email, dbUp)
       IN [thread |-> IF r.threw THEN Thrown(th, r.error)
                      ELSE IF r.user # NullUser
                      THEN [Thrown(th, UserAlreadyExists) EXCEPT !.existingUser = r.user]
                      ELSE [th EXCEPT !.pc = "createUser"],
           users |-> users, userData |-> userData]
  ELSE LET r == UserRepository_createUser([email |-> th.email, name |-> th.name], dbUp)
       IN [thread |-> IF r.threw
                      THEN [Thrown(th, r.error) EXCEPT
                              !.before = LiveRowWithEmail(th.email)]
                      ELSE [th EXCEPT !.pc = "returned", !.user = r.user,
                                      !.committed = r.wrote],
           users |-> r.users, userData |-> r.userData]

\* findById, throw if there is no user, updateUser
UpdateUserUseCase_execute(th, dbUp) ==
  IF th.pc = "existingUser"
  THEN LET r == BaseRepository_findById(th.id, dbUp)
       IN [thread |-> IF r.threw THEN Thrown(th, r.error)
                      ELSE IF r.user = NullUser THEN Thrown(th, UserNotFound)
                      ELSE [th EXCEPT !.pc = "updateUser", !.existingUser = r.user],
           users |-> users, userData |-> userData]
  ELSE LET r == UserRepository_updateUser(th.id, [name |-> th.name], dbUp)
       IN [thread |-> IF r.threw THEN Thrown(th, r.error)
                      ELSE [th EXCEPT !.pc = "returned", !.user = r.user,
                                      !.committed = r.wrote,
                                      !.before = RowWithId(th.id)],
           users |-> r.users, userData |-> r.userData]

\* findById, throw if there is no user, deleteUser
DeleteUserUseCase_execute(th, dbUp) ==
  IF th.pc = "existingUser"
  THEN LET r == BaseRepository_findById(th.id, dbUp)
       IN [thread |-> IF r.threw THEN Thrown(th, r.error)
                      ELSE IF r.user = NullUser THEN Thrown(th, UserNotFound)
                      ELSE [th EXCEPT !.pc = "deleteUser", !.existingUser = r.user],
           users |-> users, userData |-> userData]
  ELSE LET r == UserRepository_deleteUser(th.id, dbUp)
       IN [thread |-> IF r.threw THEN Thrown(th, r.error)
                      ELSE [th EXCEPT !.pc = "returned", !.user = r.user,
                                      !.committed = r.wrote,
                                      !.before = RowWithId(th.id)],
           users |-> r.users, userData |-> r.userData]

\* findById
GetUserUseCase_execute(th, dbUp) ==
  LET r == BaseRepository_findById(th.id, dbUp)
  IN IF r.threw THEN Thrown(th, r.error)
     ELSE [th EXCEPT !.pc = "done", !.user = r.user]

\* findByEmail
GetUserUseCase_getByEmail(th, dbUp) ==
  LET r == UserRepository_findByEmail(th.email, dbUp)
  IN IF r.threw THEN Thrown(th, r.error)
     ELSE [th EXCEPT !.pc = "done", !.user = r.user]

----------------------------------------------------------------------------
(* UserController: each definition is the steps of one method, from one     *)
(* await to the next; the await of the AuditLogger is AuditWrite            *)

\* this.permissionChecker.require(actorId, resource, action): the Guard returns
\* when the Permission Store grants the pair to the actor and throws
\* 'Forbidden' when it does not
PermissionCheckerRequire(granted) ==
  IF granted THEN [threw |-> FALSE, error |-> NoError]
  ELSE [threw |-> TRUE, error |-> Forbidden]

\* the copy of a user that is logged
sanitizeUserForAudit(user) ==
  "{id: '" \o user.id \o "', email: '" \o user.email \o "', name: '" \o user.name
    \o "', deletedAt: " \o (IF user.deletedAt THEN "set" ELSE "null") \o "}"

\* a step of a call that writes to no table
ReadOnly == UNCHANGED <<permissionStore, caller, users, userData, auditLogs, nextId>>

\* a method of the controller is called
Invoke(t, op, actorId, id, email, name) ==
  /\ threads[t].op = "idle"
  /\ threads' = [threads EXCEPT ![t] =
                   [NoThread EXCEPT !.op = op, !.pc = "require", !.actorId = actorId,
                                    !.id = id, !.email = email, !.name = name]]
  /\ ReadOnly

\* await this.permissionChecker.require(actorId, 'users', action)
Authorize(t, op, action, next) ==
  /\ threads[t].op = op
  /\ threads[t].pc = "require"
  /\ \E granted \in BOOLEAN :
       LET r == PermissionCheckerRequire(granted)
       IN threads' = [threads EXCEPT
                        ![t].calls = Append(@, "require users:" \o action),
                        ![t].authorized = granted,
                        ![t].threw = r.threw, ![t].error = r.error,
                        ![t].pc = IF r.threw THEN "done" ELSE next]
  /\ ReadOnly

\* const oldUser = await this.userRepository.findById(id)
FetchOldUser(t, op) ==
  /\ threads[t].op = op
  /\ threads[t].pc = "oldUser"
  /\ \E up \in BOOLEAN :
       LET r == BaseRepository_findById(threads[t].id, up)
           th == [threads[t] EXCEPT !.calls = Append(@, "userRepository")]
       IN threads' = [threads EXCEPT ![t] =
                        IF r.threw THEN Thrown(th, r.error)
                        ELSE [th EXCEPT !.pc = "existingUser", !.oldUser = r.user]]
  /\ ReadOnly

\* the call enters the use case at its first await
EnterUseCase(th) ==
  IF th.pc = "existingUser" THEN [th EXCEPT !.calls = Append(@, "useCase")] ELSE th

\* the names a record of the call carries
AuditNames(th) == <<Str(<<"user">>), Str(<<th.user.id>>), Str(<<th.actorId>>)>>

\* the call goes on to the AuditLogger with these params
ToAudit(th, operation, payloads) ==
  [th EXCEPT !.pc = "audit", !.params = Params(operation, AuditNames(th), payloads)]

UserController_createUser(t) ==
  \/ Authorize(t, "createUser", "write", "existingUser")
  \/ /\ threads[t].op = "createUser"
     /\ threads[t].pc \in {"existingUser", "createUser"}
     /\ \E up \in BOOLEAN :
          /\ (threads[t].pc = "createUser" /\ up /\ EmailIsFree(threads[t].email))
               => CanInsertUser
          /\ LET r == CreateUserUseCase_execute(EnterUseCase(threads[t]), up)
                 th == r.thread
             IN /\ threads' = [threads EXCEPT ![t] =
                                 IF th.pc = "returned"
                                 THEN ToAudit(th, "CREATE",
                                              <<Undefined, sanitizeUserForAudit(th.user),
                                                Undefined>>)
                                 ELSE th]
                /\ users' = r.users
                /\ userData' = r.userData
     /\ UNCHANGED <<permissionStore, caller, auditLogs, nextId>>

UserController_updateUser(t) ==
  \/ Authorize(t, "updateUser", "write", "oldUser")
  \/ FetchOldUser(t, "updateUser")
  \/ /\ threads[t].op = "updateUser"
     /\ threads[t].pc \in {"existingUser", "updateUser"}
     /\ \E up \in BOOLEAN :
          LET r == UpdateUserUseCase_execute(EnterUseCase(threads[t]), up)
              th == r.thread
          IN /\ threads' = [threads EXCEPT ![t] =
                              IF th.pc # "returned" THEN th
                              ELSE IF th.user # NullUser /\ th.oldUser # NullUser
                              THEN ToAudit(th, "UPDATE",
                                           <<sanitizeUserForAudit(th.oldUser),
                                             sanitizeUserForAudit(th.user), Undefined>>)
                              ELSE [th EXCEPT !.pc = "done"]]
             /\ users' = r.users
             /\ userData' = r.userData
     /\ UNCHANGED <<permissionStore, caller, auditLogs, nextId>>

\* variant: deleteUser does not ask the Guard
UserController_deleteUser_unchecked(t) ==
  \/ /\ threads[t].op = "deleteUser"
     /\ threads[t].pc = "require"
     /\ threads' = [threads EXCEPT ![t].pc = "oldUser"]
     /\ ReadOnly
  \/ FetchOldUser(t, "deleteUser")
  \/ /\ threads[t].op = "deleteUser"
     /\ threads[t].pc \in {"existingUser", "deleteUser"}
     /\ \E up \in BOOLEAN :
          LET r == DeleteUserUseCase_execute(EnterUseCase(threads[t]), up)
              th == r.thread
          IN /\ threads' = [threads EXCEPT ![t] =
                              IF th.pc # "returned" THEN th
                              ELSE IF th.user # NullUser /\ th.oldUser # NullUser
                              THEN ToAudit(th, "DELETE",
                                           <<sanitizeUserForAudit(th.oldUser),
                                             Undefined, Undefined>>)
                              ELSE [th EXCEPT !.pc = "done"]]
             /\ users' = r.users
             /\ userData' = r.userData
     /\ UNCHANGED <<permissionStore, caller, auditLogs, nextId>>

UserController_deleteUser(t) ==
  \/ Authorize(t, "deleteUser", "delete", "oldUser")
  \/ FetchOldUser(t, "deleteUser")
  \/ /\ threads[t].op = "deleteUser"
     /\ threads[t].pc \in {"existingUser", "deleteUser"}
     /\ \E up \in BOOLEAN :
          LET r == DeleteUserUseCase_execute(EnterUseCase(threads[t]), up)
              th == r.thread
          IN /\ threads' = [threads EXCEPT ![t] =
                              IF th.pc # "returned" THEN th
                              ELSE IF th.user # NullUser /\ th.oldUser # NullUser
                              THEN ToAudit(th, "DELETE",
                                           <<sanitizeUserForAudit(th.oldUser),
                                             Undefined, Undefined>>)
                              ELSE [th EXCEPT !.pc = "done"]]
             /\ users' = r.users
             /\ userData' = r.userData
     /\ UNCHANGED <<permissionStore, caller, auditLogs, nextId>>

UserController_getAllUsers(t) ==
  \/ Authorize(t, "getAllUsers", "read", "findAll")
  \/ /\ threads[t].op = "getAllUsers"
     /\ threads[t].pc = "findAll"
     /\ \E up \in BOOLEAN :
          LET r == BaseRepository_findAll(up)
              th == [threads[t] EXCEPT !.calls = Append(@, "userRepository")]
          IN threads' = [threads EXCEPT ![t] =
                           IF r.threw THEN Thrown(th, r.error)
                           ELSE [th EXCEPT !.pc = "done", !.list = r.list]]
     /\ ReadOnly

UserController_getUserById(t) ==
  \/ Authorize(t, "getUserById", "read", "existingUser")
  \/ /\ threads[t].op = "getUserById"
     /\ threads[t].pc = "existingUser"
     /\ \E up \in BOOLEAN :
          threads' = [threads EXCEPT ![t] =
                        GetUserUseCase_execute(EnterUseCase(threads[t]), up)]
     /\ ReadOnly

UserController_getUserByEmail(t) ==
  \/ Authorize(t, "getUserByEmail", "read", "existingUser")
  \/ /\ threads[t].op = "getUserByEmail"
     /\ threads[t].pc = "existingUser"
     /\ \E up \in BOOLEAN :
          threads' = [threads EXCEPT ![t] =
                        GetUserUseCase_getByEmail(EnterUseCase(threads[t]), up)]
     /\ ReadOnly

\* the methods of the controller and the arguments each takes
ControllerOps == {"createUser", "getAllUsers", "getUserById", "getUserByEmail",
                  "updateUser", "deleteUser"}
TakesId(op) == op \in {"getUserById", "updateUser", "deleteUser"}
TakesEmail(op) == op \in {"createUser", "getUserByEmail"}
TakesName(op) == op \in {"createUser", "updateUser"}

\* the acting user of the calls
Actor == "alice"

\* one of these methods is called with arguments among these
Call(t, ops, ids, emails, names) ==
  \E op \in ops, id \in ids, email \in emails, name \in names :
    Invoke(t, op, Actor, IF TakesId(op) THEN id ELSE "",
           IF TakesEmail(op) THEN email ELSE "", IF TakesName(op) THEN name ELSE "")

----------------------------------------------------------------------------
(* Properties *)

\* the tokens of a string
Tokens(str) == { str[i] : i \in DOMAIN str }

\* the permissions the store lets the query return for a user
ResolvedIds(userId) == { p \in PermIds : JoinCount(userId, p) > 0 }

\* some permission row with this (resource, action) is linked to a role the
\* user is linked to
Reachable(userId, resource, action) ==
  \E r \in Roles, p \in PermIds :
    /\ userRoles[<<userId, r>>] > 0
    /\ rolePermissions[<<r, p>>] > 0
    /\ permissions[p].resource = resource
    /\ permissions[p].action = action

\* the same, through a role and a permission that are not soft-deleted
LiveReachable(userId, resource, action) ==
  \E r \in Roles, p \in PermIds :
    /\ userRoles[<<userId, r>>] > 0
    /\ rolePermissions[<<r, p>>] > 0
    /\ ~rolesDeletedAt[r]
    /\ ~permissionsDeletedAt[p]
    /\ permissions[p].resource = resource
    /\ permissions[p].action = action

\* C1: Guard.check never throws; it returns a boolean, which is the Resolver's
\* result when the Resolver returns and false when the Resolver throws.
C1_CheckFailsClosed ==
  call.op = "check" =>
    /\ ~ret.threw
    /\ ret.value \in BOOLEAN
    /\ \A ord \in PermOrders :
         LET r == CheckPermissionUseCase_execute(call.userId, call.resource,
                                                 call.action, ord, call.dbUp)
         IN ret.value = (IF r.threw THEN FALSE ELSE r.value)

\* check has answered false because the Resolver threw
C1_Witness ==
  /\ call.op = "check"
  /\ ~call.dbUp
  /\ trace.resolver = "threw"
  /\ ret.value = FALSE
  /\ ~ret.threw

\* C2: Guard.require returns normally exactly when the Resolver returns true,
\* and otherwise (the Resolver returns false or throws) fails with the error
\* whose message is 'Forbidden'; the Resolver's own error never surfaces.
C2_RequireOutcome ==
  call.op = "require" =>
    /\ \A ord \in PermOrders :
         LET r == CheckPermissionUseCase_execute(call.userId, call.resource,
                                                 call.action, ord, call.dbUp)
         IN (~ret.threw) <=> (~r.threw /\ r.value)
    /\ ret.threw => /\ ret.error.message = <<"Forbidden">>
                    /\ ret.error # DatabaseError

\* require has failed although the user holds the permission: the storage failed
C2_Witness ==
  /\ call.op = "require"
  /\ ~call.dbUp
  /\ LiveReachable(call.userId, call.resource, call.action)
  /\ ret.threw
  /\ ret.error = Forbidden

\* C3: the error of a failed Guard.require is one value, whatever the actor, the
\* resource, the action and the cause of the denial: it is the error with message
\* 'Forbidden', and no token of it comes from the actor, the resource or the action,
\* nor from the error the Resolver threw.
C3_DenialIsUniform ==
  (call.op = "require" /\ ret.threw) =>
    /\ ret.error = Forbidden
    /\ Tokens(ret.error.message) \cap
         (Tokens(call.resource) \cup Tokens(call.action) \cup {call.userId}) = {}
    /\ \A i \in DOMAIN trace.logged :
         Tokens(ret.error.message) \cap Tokens(trace.logged[i].message) = {}

\* a user that has a role but not the requested permission is denied
C3_Witness ==
  /\ call.op = "require"
  /\ call.dbUp
  /\ \E r \in Roles : userRoles[<<call.userId, r>>] > 0
  /\ ~Reachable(call.userId, call.resource, call.action)
  /\ ret.threw

\* C4: execute compares every permission of the user's resolved set exactly once,
\* whether none, the first, a later or several of them match.
C4_ExecuteScansAll ==
  (call.op = "execute" /\ ~ret.threw) =>
    trace.compared = <<Cardinality(ResolvedIds(call.userId))>>

\* a check that matched in a set of two permissions
C4_Witness ==
  /\ call.op = "execute"
  /\ ret.value = TRUE
  /\ Cardinality(ResolvedIds(call.userId)) = 2
  /\ trace.compared = <<2>>

\* C5: checkMultiple compares, for each requested pair, every permission of the
\* user's resolved set exactly once.
C5_CheckMultipleScansAll ==
  (call.op = "checkMultiple" /\ ~ret.threw) =>
    /\ Len(trace.compared) = Len(call.checks)
    /\ \A i \in DOMAIN trace.compared :
         trace.compared[i] = Cardinality(ResolvedIds(call.userId))

\* C6: a call of execute or of checkMultiple issues exactly one fetch of the
\* permission set, for the user id of the call, whatever is asked and whatever
\* the store holds.
C6_OneFetchPerCall ==
  call.op \in {"execute", "checkMultiple"} => trace.fetches = <<call.userId>>

\* a batch of two pairs answered from one fetch
C6_Witness ==
  /\ call.op = "checkMultiple"
  /\ Len(call.checks) = 2
  /\ ~ret.threw
  /\ trace.fetches = <<call.userId>>

\* C7 as stated: execute returns true exactly when a permission with that
\* resource and action is linked to a role the user is linked to, and it does
\* not throw while the storage answers.
C7_AsStated ==
  (call.op = "execute" /\ call.dbUp) =>
    /\ ~ret.threw
    /\ ret.value <=> Reachable(call.userId, call.resource, call.action)

\* C7 amended: execute returns true exactly when a permission with that resource
\* and action, not soft-deleted, is linked to a role of the user that is not
\* soft-deleted; it does not throw while the storage answers.
C7_ExecuteIffLiveGrant ==
  (call.op = "execute" /\ call.dbUp) =>
    /\ ~ret.threw
    /\ ret.value <=> LiveReachable(call.userId, call.resource, call.action)

\* the only grant runs through a soft-deleted role or permission: false
C7_Witness ==
  /\ call.op = "execute"
  /\ call.dbUp
  /\ Reachable(call.userId, call.resource, call.action)
  /\ ~LiveReachable(call.userId, call.resource, call.action)
  /\ ret.value = FALSE

\* C8: the map of checkMultiple holds, for each requested pair, at the key
\* "resource:action" the value execute returns for that pair on the same store.
C8_CheckMultipleAsExecute ==
  (call.op = "checkMultiple" /\ ~ret.threw) =>
    \A i \in DOMAIN call.checks, ord \in PermOrders :
      /\ Key(call.checks[i]) \in DOMAIN ret.results
      /\ ret.results[Key(call.checks[i])] =
           CheckPermissionUseCase_execute(call.userId, call.checks[i].resource,
                                          call.checks[i].action, ord, TRUE).value

\* C9: Guard.hasAll with an empty checks list returns false.
C9_HasAllEmptyIsFalse ==
  (call.op = "hasAll" /\ call.checks = <<>>) => ret.value = FALSE

\* C10: Guard.hasAny with an empty checks list returns false, and does not throw.
C10_HasAnyEmptyIsFalse ==
  (call.op = "hasAny" /\ call.checks = <<>>) => (~ret.threw /\ ret.value = FALSE)

\* hasAny of no checks, asked for a user that holds a permission
C10_Witness ==
  /\ call.op = "hasAny"
  /\ call.checks = <<>>
  /\ call.dbUp
  /\ ResolvedIds(call.userId) # {}
  /\ ret.value = FALSE

\* C11: Guard.hasAll and Guard.hasAny called with an empty checks list never
\* invoke the Resolver: no call of its batch check, no fetch from the store.
C11_EmptyListSkipsResolver ==
  (call.op \in {"hasAll", "hasAny"} /\ call.checks = <<>>) =>
    /\ trace.resolverCalls = 0
    /\ trace.fetches = <<>>

\* the operations of the Audit Recorder
RecorderOps == {"log", "logCreate", "logUpdate", "logDelete", "logRestore", "logRead"}
HelperOps == RecorderOps \ {"log"}

\* a string argument that is missing, or blank after trimming
Blank(str) == ~str.defined \/ \A i \in DOMAIN str.chars : str.chars[i] \in Whitespace

NamesBlank(params) ==
  Blank(params.entityType) \/ Blank(params.entityId) \/ Blank(params.actorId)

\* C12: log or a log* helper called with entityType, entityId or actorId missing
\* or blank after trimming fails with a validation error before any storage
\* write: the repository's create is not called and the table is unchanged.
C12_BlankNamesRejected ==
  [][(call'.op \in RecorderOps /\ call.op = "idle" /\ NamesBlank(call'.params)) =>
       /\ ret'.threw
       /\ ret'.error \in {EntityTypeEmpty, EntityIdEmpty, ActorIdEmpty}
       /\ trace'.creates = <<>>
       /\ auditLogs' = auditLogs
       /\ nextId' = nextId]_vars

\* logDelete with a blank entityId was rejected while the table holds a record
C12_Witness ==
  /\ call.op = "logDelete"
  /\ call.params.entityId = Str(<<" ", "\t">>)
  /\ call.dbUp
  /\ ret.threw
  /\ auditLogs # {}

\* C13: no operation of the Audit Recorder or of the Audit Store modifies or
\* removes a record: every row of audit_logs is still there, with all its
\* fields, after every step; the table only grows.
C13_RecordsAreKept ==
  [][\A r \in auditLogs : r \in auditLogs']_vars

\* a second record was appended next to the first
C13_Witness ==
  /\ call.op \in RecorderOps
  /\ ret.record.id = 2
  /\ \E r \in auditLogs : r.id = 1
  /\ ret.record \in auditLogs

\* C14: when a user is permanently removed, every audit record stays in the
\* table, with its actorId unset if it referenced that user and all its other
\* fields unchanged.
C14_RemovedActorKeepsRecords ==
  [][\A u \in Users :
       (users[u] # "absent" /\ users'[u] = "absent") =>
         \A r \in auditLogs :
           \E k \in auditLogs' :
             /\ k.id = r.id
             /\ k.operation = r.operation
             /\ k.entityType = r.entityType
             /\ k.entityId = r.entityId
             /\ k.oldValues = r.oldValues
             /\ k.newValues = r.newValues
             /\ k.metadata = r.metadata
             /\ k.timestamp = r.timestamp
             /\ k.actorId = (IF r.actorId = <<u>> THEN <<>> ELSE r.actorId)]_vars

\* C15: every record of the table has oldValues null if it is a CREATE or a
\* RESTORE, newValues null if it is a DELETE, and both null if it is a READ.
C15_NullabilityPerKind ==
  \A r \in auditLogs :
    /\ r.operation \in {"CREATE", "RESTORE", "READ"} => r.oldValues = Null
    /\ r.operation \in {"DELETE", "READ"} => r.newValues = Null

\* the payload a helper was given for oldValues / newValues, null if it takes none
GivenOrNull(value) == IF value = Undefined THEN Null ELSE value

HelperOperation(op) ==
  CASE op = "logCreate" -> "CREATE"
    [] op = "logUpdate" -> "UPDATE"
    [] op = "logDelete" -> "DELETE"
    [] op = "logRestore" -> "RESTORE"
    [] op = "logRead" -> "READ"

\* C16: the record a helper appends has the operation of the helper, oldValues
\* null for logCreate, logRestore and logRead and the given payload for logUpdate
\* and logDelete, newValues null for logDelete and logRead and the given payload
\* for logCreate, logRestore and logUpdate.
C16_HelperRecord ==
  (call.op \in HelperOps /\ ~ret.threw) =>
    /\ ret.record \in auditLogs
    /\ ret.record.operation = HelperOperation(call.op)
    /\ ret.record.oldValues =
         (IF call.op \in {"logUpdate", "logDelete"} THEN OldPayload ELSE Null)
    /\ ret.record.newValues =
         (IF call.op \in {"logCreate", "logRestore", "logUpdate"}
          THEN NewPayload ELSE Null)
    /\ ret.record.oldValues = GivenOrNull(call.params.oldValues)
    /\ ret.record.newValues = GivenOrNull(call.params.newValues)

\* logCreate has appended its record
C16_Witness ==
  /\ call.op = "logCreate"
  /\ ~ret.threw
  /\ ret.record.operation = "CREATE"
  /\ ret.record.newValues = NewPayload
  /\ ret.record \in auditLogs

\* the error of the storage layer for a call: the database is down, or the
\* insert names an actor that has no row in users
StorageError(c) ==
  IF ~c.dbUp THEN DatabaseError ELSE ForeignKeyViolation

\* C17: when the storage layer fails, execute, getUserPermissions and
\* checkMultiple of the Resolver fail with that error and return no boolean, map
\* or list, and log and the log* helpers fail with that error and return no
\* record.
C17_FailuresPropagate ==
  /\ (call.op \in {"execute", "getUserPermissions", "checkMultiple"} /\ ~call.dbUp) =>
       /\ ret.threw
       /\ ret.error = DatabaseError
       /\ ret.value = FALSE /\ ret.results = EmptyObject /\ ret.list = <<>>
  /\ (call.op \in RecorderOps /\ ~NamesBlank(call.params)
        /\ (~call.dbUp \/ ~ActorExists(Trim(call.params.actorId.chars)))) =>
       /\ ret.threw
       /\ ret.error = StorageError(call)
       /\ ret.record = NoRecord

\* a logUpdate whose write was lost has failed with the error of the database
C17_Witness ==
  /\ call.op = "logUpdate"
  /\ ~call.dbUp
  /\ ~NamesBlank(call.params)
  /\ ret.threw
  /\ ret.error = DatabaseError

\* the ids of a list of permissions
ListIds(list) == { list[i].id : i \in DOMAIN list }

\* the permissions linked to a role the user is linked to
LinkedIds(userId) ==
  { p \in PermIds : \E r \in Roles : userRoles[<<userId, r>>] > 0
                                      /\ rolePermissions[<<r, p>>] > 0 }

\* the same, through a role and a permission that are not soft-deleted
LiveIds(userId) ==
  { p \in PermIds : /\ ~permissionsDeletedAt[p]
                    /\ \E r \in Roles : /\ ~rolesDeletedAt[r]
                                        /\ userRoles[<<userId, r>>] > 0
                                        /\ rolePermissions[<<r, p>>] > 0 }

\* C18 as stated: the list of getUserPermissions has no two entries with the same
\* id and holds every permission linked to a role of the user.
C18_AsStated ==
  (call.op = "getUserPermissions" /\ ~ret.threw) =>
    /\ \A i, j \in DOMAIN ret.list : ret.list[i].id = ret.list[j].id => i = j
    /\ LinkedIds(call.userId) \subseteq ListIds(ret.list)

\* C18 amended: the list of getUserPermissions has no two entries with the same
\* id, also when link rows are duplicated or several roles carry the
\* permission, and holds every permission that is not soft-deleted and is linked
\* to a role of the user that is not soft-deleted.
C18_EachPermissionOnce ==
  (call.op = "getUserPermissions" /\ ~ret.threw) =>
    /\ \A i, j \in DOMAIN ret.list : ret.list[i].id = ret.list[j].id => i = j
    /\ LiveIds(call.userId) \subseteq ListIds(ret.list)

\* the query delivered a permission in two rows and the list holds it once
C18_Witness ==
  /\ call.op = "getUserPermissions"
  /\ ~ret.threw
  /\ \E p \in PermIds : JoinCount(call.userId, p) >= 2 /\ p \in ListIds(ret.list)
  /\ Len(ret.list) = Cardinality(ListIds(ret.list))

\* C19: getUserPermissions returns only permissions that are not soft-deleted
\* and are linked to a role of the user that is not soft-deleted, and execute
\* answers true only for such a permission, whether the user itself is
\* soft-deleted or not.
C19_OnlyLiveGrants ==
  (call.op = "getUserPermissions" /\ ~ret.threw) =>
    /\ ListIds(ret.list) \subseteq LiveIds(call.userId)
    /\ \A c \in CheckPairs, ord \in PermOrders :
         CheckPermissionUseCase_execute(call.userId, c.resource, c.action,
                                        ord, TRUE).value
           => LiveReachable(call.userId, c.resource, c.action)
    /\ users[call.userId] = "deleted" => ListIds(ret.list) = LiveIds(call.userId)

\* a soft-deleted user keeps one grant and has lost another one to a soft delete
C19_Witness ==
  /\ call.op = "getUserPermissions"
  /\ ~ret.threw
  /\ users[call.userId] = "deleted"
  /\ ret.list # <<>>
  /\ LinkedIds(call.userId) \ LiveIds(call.userId) # {}

\* C20: Guard.checkMultiple never throws; when the Resolver's batch check throws
\* it returns a map with exactly the requested "resource:action" keys, each
\* mapped to false, and when the Resolver returns it returns the Resolver's map.
C20_CheckMultipleFailsClosed ==
  call.op = "checker.checkMultiple" =>
    /\ ~ret.threw
    /\ \A ord \in PermOrders :
         LET r == CheckPermissionUseCase_checkMultiple(call.userId, call.checks,
                                                       ord, call.dbUp)
         IN IF r.threw
            THEN /\ DOMAIN ret.results = { Key(call.checks[i]) : i \in DOMAIN call.checks }
                 /\ \A k \in DOMAIN ret.results : ret.results[k] = FALSE
            ELSE ret.results = r.results

\* the Resolver threw for two pairs with two keys: both keys are there, false
C20_Witness ==
  /\ call.op = "checker.checkMultiple"
  /\ ~call.dbUp
  /\ trace.resolver = "threw"
  /\ Cardinality(DOMAIN ret.results) = 2
  /\ \A k \in DOMAIN ret.results : ret.results[k] = FALSE

\* C21: for a non-empty checks list, Guard.hasAll returns true exactly when the
\* user holds every requested pair and Guard.hasAny exactly when the user holds
\* at least one of them; both return false when the Resolver throws.
C21_HasAllHasAny ==
  (call.op \in {"hasAll", "hasAny"} /\ call.checks # <<>>) =>
    /\ ~ret.threw
    /\ ~call.dbUp => ret.value = FALSE
    /\ (call.dbUp /\ call.op = "hasAll") =>
         (ret.value <=> \A i \in DOMAIN call.checks :
                          LiveReachable(call.userId, call.checks[i].resource,
                                        call.checks[i].action))
    /\ (call.dbUp /\ call.op = "hasAny") =>
         (ret.value <=> \E i \in DOMAIN call.checks :
                          LiveReachable(call.userId, call.checks[i].resource,
                                        call.checks[i].action))

\* C22: Guard.getUserPermissions never throws; it returns the list the Resolver
\* returns (in one of the orders the query may deliver it), and the empty list
\* when the Resolver throws.
C22_GetUserPermissionsFailsClosed ==
  call.op = "checker.getUserPermissions" =>
    /\ ~ret.threw
    /\ call.dbUp =>
         \E ord \in PermOrders :
           LET r == CheckPermissionUseCase_getUserPermissions(call.userId, ord, TRUE)
           IN ~r.threw /\ ret.list = r.list
    /\ ~call.dbUp => ret.list = <<>>

\* the Resolver threw for a user that holds a permission: the list is empty
C22_Witness ==
  /\ call.op = "checker.getUserPermissions"
  /\ ~call.dbUp
  /\ trace.resolver = "threw"
  /\ ResolvedIds(call.userId) # {}
  /\ ret.list = <<>>
  /\ ~ret.threw

----------------------------------------------------------------------------
\* C23: findAll never returns more than 1000 records: whatever limit and offset
\* the caller passes, the limit given to storage is a number no larger than
\* MAX_LIMIT, and the page is no longer than that limit.
C23_FindAllAtMostMax ==
  call.op = "findAll" =>
    /\ find.safeLimit.kind = "number"
    /\ find.safeLimit.n <= MAX_LIMIT
    /\ Len(find.rows) <= find.safeLimit.n
    /\ Len(find.rows) <= MAX_LIMIT

\* findAll(100000, ...) over a store that holds records asked storage for 1000,
\* and findAll(1, ...) over two records returned one
C23_Witness ==
  /\ call.op = "findAll"
  /\ ~ret.threw
  /\ auditLogs # {}
  /\ \/ find.limit = Num(100000) /\ find.safeLimit = Num(MAX_LIMIT)
     \/ find.limit = Num(1) /\ Len(find.rows) = 1 /\ Cardinality(auditLogs) > 1

\* a limit that is negative, zero or not a number
InvalidLimit(limit) ==
  \/ limit.kind = "NaN"
  \/ limit.kind = "number" /\ limit.n <= 0

\* C24: findAll called with an invalid limit (negative, zero or not a number)
\* uses the default page size: the limit given to storage is 100.
C24_InvalidLimitIsDefault ==
  call.op = "findAll" /\ InvalidLimit(find.limit) =>
    find.safeLimit = Num(DEFAULT_LIMIT)

----------------------------------------------------------------------------
\* two finished logUpdate calls for the same entity by different actors that
\* have a row in users, neither of which met a storage failure
LogUpdatePair(a, b) ==
  /\ a # b
  /\ threads[a].op = "logUpdate" /\ threads[b].op = "logUpdate"
  /\ threads[a].pc = "done" /\ threads[b].pc = "done"
  /\ threads[a].params.entityId = threads[b].params.entityId
  /\ threads[a].actorId # threads[b].actorId
  /\ threads[a].error # DatabaseError /\ threads[b].error # DatabaseError

\* the elements of a list
Elements(list) == { list[i] : i \in DOMAIN list }

\* C25: two logUpdate calls for the same entity issued concurrently by
\* different actors both succeed under every interleaving and leave two
\* distinct records, both returned by findByEntity for that entity, each with
\* the actor and the oldValues/newValues pair of its own call.
C25_ConcurrentLogUpdates ==
  \A a, b \in Threads :
    LogUpdatePair(a, b) =>
      LET found == AuditLogRepository_findByEntity(
                     <<"user">>, threads[a].params.entityId.chars, TRUE).rows
      IN /\ ~threads[a].threw /\ ~threads[b].threw
         /\ threads[a].record.id # threads[b].record.id
         /\ \A t \in {a, b} :
              /\ threads[t].record \in auditLogs
              /\ threads[t].record \in Elements(found)
              /\ threads[t].record.operation = "UPDATE"
              /\ threads[t].record.actorId = <<threads[t].actorId>>
              /\ threads[t].record.oldValues = threads[t].params.oldValues
              /\ threads[t].record.newValues = threads[t].params.newValues
         /\ Len(found) >= 2

\* both calls were in progress at once, with different pairs of values, and
\* findByEntity then returned the two records
C25_Witness ==
  /\ LogUpdatePair("t1", "t2")
  /\ threads["t1"].params.oldValues # threads["t2"].params.oldValues
  /\ threads["t1"].record.id > threads["t2"].record.id
  /\ call.op = "findByEntity"
  /\ find.entityId = threads["t1"].params.entityId.chars
  /\ Len(find.rows) = 2

----------------------------------------------------------------------------
\* the (resource, action) each method of the controller requires
Required(op) ==
  "require users:" \o (CASE op \in {"createUser", "updateUser"} -> "write"
                         [] op = "deleteUser" -> "delete"
                         [] OTHER -> "read")

----------------------------------------------------------------------------
\* the methods that change a user and the kind of record each writes
MutationOps == {"createUser", "updateUser", "deleteUser"}
RecordKind(op) ==
  CASE op = "createUser" -> "CREATE"
    [] op = "updateUser" -> "UPDATE"
    [] OTHER -> "DELETE"

\* the call left its record: a row of audit_logs of the call's kind, for the
\* call's user, by the call's actor
LeftRecord(t) ==
  /\ threads[t].record \in auditLogs
  /\ threads[t].record.operation = RecordKind(threads[t].op)
  /\ threads[t].record.entityType = <<"user">>
  /\ threads[t].record.entityId = <<threads[t].user.id>>
  /\ threads[t].record.actorId = <<threads[t].actorId>>

\* C27: whatever the interleaving and the storage failures, every committed
\* user mutation (create, update, soft delete) has its audit record of the
\* matching kind, with the user's id and the actor, and a mutation that did
\* not commit has none: a finished call left its record exactly when its
\* write took place.
C27_MutationsAreAudited ==
  \A t \in Threads :
    (threads[t].op \in MutationOps /\ threads[t].pc = "done") =>
      /\ threads[t].committed => LeftRecord(t)
      /\ ~threads[t].committed => threads[t].record = NoRecord

----------------------------------------------------------------------------
\* C28: CreateUserUseCase never produces two live users with the same email: a
\* create whose email belongs to an existing live user (when the use case
\* looks the email up, or when its insert runs) fails with 'User with this
\* email already exists' and creates nothing, under every interleaving of
\* concurrent creates.
C28_NoDuplicateEmail ==
  /\ \A u, v \in UserIds :
       (u # v /\ users[u] = "live" /\ users[v] = "live") =>
         userData[u].email # userData[v].email
  /\ \A t \in Threads :
       ( /\ threads[t].op = "createUser"
         /\ threads[t].pc = "done"
         /\ threads[t].error # DatabaseError
         /\ threads[t].existingUser # NullUser \/ threads[t].before # NullUser ) =>
           /\ threads[t].error = UserAlreadyExists
           /\ ~threads[t].committed

\* C29: UpdateUserUseCase modifies a user only if the user exists and is not
\* soft-deleted at the moment the update is applied; for a missing or
\* soft-deleted user it fails with 'User not found' and performs no write, also
\* when a deleteUser on the same user interleaves between its existence check
\* and its update.
C29_UpdateOnlyLiveUser ==
  \A t \in Threads :
    threads[t].op = "updateUser" =>
      /\ threads[t].committed =>
           threads[t].before # NullUser /\ ~threads[t].before.deletedAt
      /\ ( /\ threads[t].pc = "done"
           /\ threads[t].calls # <<>>
           /\ threads[t].calls[Len(threads[t].calls)] = "useCase"
           /\ threads[t].existingUser = NullUser
           /\ threads[t].error # DatabaseError ) =>
             threads[t].error = UserNotFound /\ ~threads[t].committed

\* C30: every UPDATE record written by UserController.updateUser is consistent
\* under any interleaving of concurrent updateUser calls on the same user: its
\* oldValues is the state the user had immediately before the call's update
\* was applied, its newValues the state immediately after it.
C30_UpdateRecordConsistent ==
  \A t \in Threads :
    ( /\ threads[t].op = "updateUser"
      /\ threads[t].pc = "done"
      /\ threads[t].record # NoRecord ) =>
        /\ threads[t].record.oldValues = sanitizeUserForAudit(threads[t].before)
        /\ threads[t].record.newValues = sanitizeUserForAudit(threads[t].user)

----------------------------------------------------------------------------
(* Specifications *)

\* the Resolver over a store whose link rows change
Next ==
  \/ LinkChange
  \/ Execute
  \/ CheckMultiple
  \/ Return

Spec == Init /\ [][Next]_vars

\* the Resolver's single check over a store whose roles and permissions are
\* also soft-deleted and restored
NextStore ==
  \/ LinkChange
  \/ SoftDeleteChange
  \/ Execute
  \/ Return

SpecStore == Init /\ [][NextStore]_vars

\* the Guard over a store whose link rows change
NextGuard ==
  \/ LinkChange
  \/ Check
  \/ Require
  \/ HasAll
  \/ HasAny
  \/ Return

SpecGuard == Init /\ [][NextGuard]_vars

\* the Guard's batch operations over a store whose link rows change
NextGuardBatch ==
  \/ LinkChange
  \/ CheckerCheckMultiple
  \/ CheckerGetUserPermissions
  \/ Return

SpecGuardBatch == Init /\ [][NextGuardBatch]_vars

\* the Resolver's list over a store whose roles, permissions and users are
\* soft-deleted and restored
NextResolved ==
  \/ LinkChange
  \/ SoftDeleteChange
  \/ UserSoftDeleteChange
  \/ GetUserPermissions
  \/ Return

SpecResolved == Init /\ [][NextResolved]_vars

\* the Audit Recorder and the Audit Store
NextAudit ==
  \/ Log
  \/ LogCreate
  \/ LogUpdate
  \/ LogDelete
  \/ LogRestore
  \/ LogRead
  \/ FindById
  \/ Return

SpecAudit == Init /\ [][NextAudit]_vars

\* the Resolver and the Audit Recorder over a storage layer that may fail
NextPropagate ==
  \/ Execute
  \/ GetUserPermissions
  \/ CheckMultiple
  \/ Log
  \/ LogCreate
  \/ LogUpdate
  \/ LogDelete
  \/ LogRestore
  \/ LogRead
  \/ Return

SpecPropagate == Init /\ [][NextPropagate]_vars

\* the Audit Recorder while users are permanently removed
NextRetention ==
  \/ LogCreate
  \/ LogUpdate
  \/ LogDelete
  \/ (\E u \in Users : HardDeleteUser(u))
  \/ Return

SpecRetention == Init /\ [][NextRetention]_vars

\* the Audit Store's paginated list over a store that is written to
NextPage ==
  \/ LogCreate
  \/ FindAll
  \/ Return

SpecPage == Init /\ [][NextPage]_vars

\* concurrent logUpdate calls by the users that have a row
NextLogUpdates ==
  \/ InsertUser
  \/ (\E t \in Threads : LogUpdateCall(t))
  \/ (\E t \in Threads : AuditWrite(t))
  \/ (\E t \in Threads : Settle(t))
  \/ FindByEntity
  \/ Return

SpecLogUpdates == Init /\ [][NextLogUpdates]_vars

\* concurrent calls of the methods of the UserController
NextController ==
  \/ Call("t1", ControllerOps, {"alice"}, {"a@x"}, {"N1"})
  \/ Call("t2", {"deleteUser"}, {"alice"}, {""}, {""})
  \/ (\E t \in Threads : UserController_createUser(t))
  \/ (\E t \in Threads : UserController_getAllUsers(t))
  \/ (\E t \in Threads : UserController_getUserById(t))
  \/ (\E t \in Threads : UserController_getUserByEmail(t))
  \/ (\E t \in Threads : UserController_updateUser(t))
  \/ (\E t \in Threads : UserController_deleteUser(t))
  \/ (\E t \in Threads : AuditWrite(t))
  \/ (\E t \in Threads : Settle(t))

SpecController == Init /\ [][NextController]_vars

\* concurrent calls of the methods of the UserController that change a user
NextMutations ==
  \/ (\E t \in Threads : Call(t, MutationOps, {"alice"}, {"a@x"}, {"N1"}))
  \/ (\E t \in Threads : UserController_createUser(t))
  \/ (\E t \in Threads : UserController_updateUser(t))
  \/ (\E t \in Threads : UserController_deleteUser(t))
  \/ (\E t \in Threads : AuditWrite(t))
  \/ (\E t \in Threads : Settle(t))

SpecMutations == Init /\ [][NextMutations]_vars

\* concurrent calls of createUser
NextCreates ==
  \/ (\E t \in Threads : Call(t, {"createUser"}, {""}, {"a@x", "b@x"}, {"N1"}))
  \/ (\E t \in Threads : UserController_createUser(t))
  \/ (\E t \in Threads : AuditWrite(t))
  \/ (\E t \in Threads : Settle(t))

SpecCreates == Init /\ [][NextCreates]_vars

\* concurrent calls of updateUser and deleteUser on one user
NextUpdateDelete ==
  \/ (\E t \in Threads : Call(t, {"updateUser", "deleteUser"}, {"alice"}, {""}, {"N1"}))
  \/ (\E t \in Threads : UserController_updateUser(t))
  \/ (\E t \in Threads : UserController_deleteUser(t))
  \/ (\E t \in Threads : AuditWrite(t))
  \/ (\E t \in Threads : Settle(t))

SpecUpdateDelete == Init /\ [][NextUpdateDelete]_vars

\* concurrent calls of updateUser on one user
NextUpdates ==
  \/ (\E t \in Threads : Call(t, {"updateUser"}, {"alice"}, {""}, {"N1", "N2"}))
  \/ (\E t \in Threads : UserController_updateUser(t))
  \/ (\E t \in Threads : AuditWrite(t))
  \/ (\E t \in Threads : Settle(t))

SpecUpdates == Init /\ [][NextUpdates]_vars

====
